---- MODULE Spec2Model ----
(***************************************************************************)
(* A model of the retrieval pipeline of apple-docs: the resilient fetcher  *)
(* (src/src/lib/http.ts), the time-bounded cache and its key builder       *)
(* (lib/cache, src/unnamed/part_006).                                      *)
(*                                                                         *)
(* Strings are sequences of one-character strings, so that substring       *)
(* search, concatenation and comparison are computed and not assumed.      *)
(***************************************************************************)
EXTENDS Integers, Sequences, FiniteSets, TLC

VARIABLES
    \* ---- fetcher (http.ts) ----
    url,        \* argument of the call in progress
    kind,       \* "json" (fetchJson) or "html" (fetchHtml); "none" before the call
    pc,         \* where the call is suspended: idle, awaitFetch, awaitDelay, awaitBody, done
    attempt,    \* the loop variable of fetchWithRetry
    lastError,  \* the local lastError (None = undefined)
    response,   \* the Response returned by fetchWithRetry (NoResponse before)
    outcome,    \* how the promise of fetchJson/fetchHtml settled
    nCalls,     \* history: number of fetch() invocations of this call
    history,    \* history: what each settled attempt observed
    errors,     \* history: the error caught in each failed attempt
    waits,      \* history: the backoff delays awaited, in order
    \* ---- cache (lib/cache) ----
    now,        \* Date.now(), in ms since the process started
    ticks,      \* number of clock advances so far
    store,      \* the module-level Map: a function from the keys present to their entries
    gos,        \* per caller, its cacheGetOrSet invocation: where it is suspended, its
                \* locals while it runs (key, ttl) and how it settled
    got,        \* the result of a direct cacheGet(key), while it is the latest step
    written,    \* history: per key, the latest set: its value, its time and its ttl
    \* ---- cache keys (makeCacheKey) ----
    prefix,     \* the prefix argument of both calls
    params,     \* the params argument of call 1 and of call 2: the object's entries in
                \* insertion order, a sequence of [name, value] with distinct names
    keyOut,     \* the key each call returned (None before the call)
    \* ---- name patterns (matchesPattern, commands/symbols) ----
    mName,      \* the name argument
    mPattern,   \* the pattern argument
    mResult,    \* the boolean returned (FALSE before the call)
    mDone,      \* the call has returned
    \* ---- the symbols walk (findSymbolsRecursive, commands/symbols) ----
    index,      \* the root list of IndexItem handed to the walk
    symbolType, \* the symbolType argument
    namePattern,\* the namePattern argument (<<>> = undefined)
    limit,      \* the limit argument
    symbols,    \* the accumulator array `symbols`
    walked,     \* the root call has returned
    \* ---- sample code (commands/samples) ----
    sampleArgs,    \* the arguments of getSampleCode
    contentData,   \* the JSON of APPLE_URLS.SAMPLE_CODE_JSON
    indexData,     \* the JSON of APPLE_URLS.SAMPLE_CODE_INDEX_JSON
    samplePc,      \* idle, awaitFetches, parsed, deduplicated, done
    sampleCodes,   \* the array sampleCodes filled by the walk
    uniqueCodes,   \* Array.from(uniqueMap.values())
    sampleResults, \* the records handed to formatSamples
    totalFound,    \* the totalFound handed to formatSamples
    sampleOutcome, \* whether the producer returned or threw, and the error thrown
    \* ---- the feature functions (commands/*) ----
    fModule,     \* the function invoked
    fArgs,       \* its parameter object (for doc: the options)
    fArgUrl,     \* doc: the url argument of the invocation
    fUrl,        \* doc: the url argument of the call in progress
    fJson,       \* doc: jsonApiUrl of the call in progress
    fDepth,      \* doc: maxDepth of the call in progress
    fPc,         \* idle, awaitFetch, done
    fPending,    \* the fetches of the invocation not yet settled, by their place in fRequests
    fSettled,    \* the fetches of the invocation that settled, in the order they did
    fPage,       \* doc: the document the latest fetch resolved with
    fRequests,   \* history: the URLs requested by the invocation, in order
    fFailure,    \* history: the error the invocation met, if any
    fResult,     \* how the promise of the invocation settled, and with what
    fInvocation, \* the number of invocations so far
    \* ---- URL conversion (convertToJsonApiUrl, lib/urls) ----
    argWebUrl,   \* the webUrl argument
    jsonUrl,     \* the value returned (Null before the call)
    urlDone,     \* the call has returned
    \* ---- search results (parseResult, commands/search) ----
    sPage,       \* the elements $('.search-result') selects, in page order
    sFilter,     \* the filterType argument
    sLimit,      \* the limit argument
    sResults,    \* the array `results`
    sDone,       \* the loop over the elements has ended
    \* ---- framework names (normalizeFramework, lib/frameworks) ----
    nfInput,     \* the name argument
    nfOutput,    \* the name returned
    nfAgain,     \* what normalizeFramework returns for the name returned
    nfDone,      \* both calls have returned
    \* ---- documentation updates (commands/updates) ----
    updateArgs,    \* the arguments of getDocumentationUpdates
    updatesData,   \* the JSON of APPLE_URLS.UPDATES_JSON
    updatesIndex,  \* the JSON of APPLE_URLS.UPDATES_INDEX_JSON
    updatePc,      \* idle, awaitFetches, done
    parsedUpdates, \* history: what parseUpdates returned
    updateResults, \* the updates handed to formatUpdates
    updateOutcome, \* whether the producer returned or threw, and the error thrown
    \* ---- technologies (applyFilters, commands/technologies) ----
    techGroups,    \* the groups argument
    techFilters,   \* the filters argument
    techResult,    \* the groups returned
    techDone       \* the call has returned

fetchVars == <<url, kind, pc, attempt, lastError, response, outcome, nCalls, history, errors, waits>>

cacheVars == <<now, ticks, store, gos, got, written>>

keyVars == <<prefix, params, keyOut>>

matchVars == <<mName, mPattern, mResult, mDone>>

walkVars == <<index, symbolType, namePattern, limit, symbols, walked>>

samplesVars == <<sampleArgs, contentData, indexData, samplePc, sampleCodes, uniqueCodes,
                 sampleResults, totalFound, sampleOutcome>>

featureVars == <<fModule, fArgs, fArgUrl, fUrl, fJson, fDepth, fPc, fPending, fSettled, fPage,
                 fRequests, fFailure, fResult, fInvocation>>

urlVars == <<argWebUrl, jsonUrl, urlDone>>

\* The library functions exercised on their own.
searchVars == <<sPage, sFilter, sLimit, sResults, sDone>>

normVars == <<nfInput, nfOutput, nfAgain, nfDone>>

updatesVars == <<updateArgs, updatesData, updatesIndex, updatePc, parsedUpdates,
                 updateResults, updateOutcome>>

techVars == <<techGroups, techFilters, techResult, techDone>>

libVars == <<urlVars, searchVars, normVars, updatesVars, techVars>>

vars == <<fetchVars, cacheVars, keyVars, matchVars, walkVars, samplesVars, featureVars,
          libVars>>

\* What the steps of each part of the program leave alone.
FetchFrame ==
    UNCHANGED <<cacheVars, keyVars, matchVars, walkVars, samplesVars, featureVars,
                libVars>>
CacheFrame ==
    UNCHANGED <<fetchVars, keyVars, matchVars, walkVars, samplesVars, featureVars,
                libVars>>
KeyFrame ==
    UNCHANGED <<fetchVars, cacheVars, matchVars, walkVars, samplesVars, featureVars,
                libVars>>
MatchFrame ==
    UNCHANGED <<fetchVars, cacheVars, keyVars, walkVars, samplesVars, featureVars,
                libVars>>
WalkFrame ==
    UNCHANGED <<fetchVars, cacheVars, keyVars, matchVars, samplesVars, featureVars,
                libVars>>
SamplesFrame ==
    UNCHANGED <<fetchVars, cacheVars, keyVars, matchVars, walkVars, featureVars,
                libVars>>
\* The parts of the program the library functions never touch.
programVars ==
    <<fetchVars, cacheVars, keyVars, matchVars, walkVars, samplesVars, featureVars>>

None == <<"none">>

\* The value of `response` before fetchWithRetry has returned one.
NoResponse == [status |-> 0, body |-> [text |-> "", wellFormed |-> FALSE]]

-----------------------------------------------------------------------------
(* Strings *)

Includes(s, sub) ==
    \E i \in 1..(Len(s) - Len(sub) + 1) : SubSeq(s, i, i + Len(sub) - 1) = sub

DigitChars == <<"0", "1", "2", "3", "4", "5", "6", "7", "8", "9">>

\* String(n) for a three-digit status code
StatusString(n) ==
    <<DigitChars[(n \div 100) + 1], DigitChars[((n \div 10) % 10) + 1], DigitChars[(n % 10) + 1]>>

Str404 == <<"4", "0", "4">>

-----------------------------------------------------------------------------
(* The fetcher: src/src/lib/http.ts *)

\* Mutant: one retry too many.
maxRetriesPlusOne == 3 + 1

maxRetries == 3

\* URLs the commands pass to the fetcher: paths under the documentation
\* host; a page name may hold digits.
Urls ==
    { <<"/", "d", "/", "a">>,
      <<"/", "d", "/", "4", "0", "4">>,
      <<"/", "d", "/", "4", "0">> }

\* Response statuses the server may answer with.
Statuses == {200, 204, 403, 404, 500, 503}

\* Messages of the errors the runtime's fetch rejects with (timeout of the
\* AbortSignal, connection failure). The runtime chooses them; they do not
\* carry the URL.
TimeoutMessage == <<"T", "h", "e", " ", "o", "p", "e", "r", "a", "t", "i", "o", "n", " ",
                    "t", "i", "m", "e", "d", " ", "o", "u", "t", ".">>
ConnectMessage == <<"U", "n", "a", "b", "l", "e", " ", "t", "o", " ",
                    "c", "o", "n", "n", "e", "c", "t">>
TransportMessages == {TimeoutMessage, ConnectMessage}

\* Bodies of a 2xx response: the text, and whether it is well-formed JSON.
Bodies == [text : {"b1", "b2"}, wellFormed : BOOLEAN]

NotFoundMessage(u) ==
    <<"N", "o", "t", " ", "f", "o", "u", "n", "d", " ", "(">> \o Str404 \o <<")", ":", " ">> \o u

ServerErrorMessage(status, u) ==
    <<"S", "e", "r", "v", "e", "r", " ", "e", "r", "r", "o", "r", " ", "(">>
        \o StatusString(status) \o <<")", ":", " ">> \o u

HttpErrorMessage(status, u) ==
    <<"H", "T", "T", "P", " ">> \o StatusString(status) \o <<":", " ">> \o u

FailedToFetchMessage(u) ==
    <<"F", "a", "i", "l", "e", "d", " ", "t", "o", " ", "f", "e", "t", "c", "h", ":", " ">> \o u

\* response.ok
Ok(status) == status >= 200 /\ status <= 299

\* The error the try block throws for a response, None when it returns it
\* (http.ts lines 33-45).
ThrownFor(status, u) ==
    IF status = 404 THEN NotFoundMessage(u)
    ELSE IF status >= 500 THEN ServerErrorMessage(status, u)
    ELSE IF ~Ok(status) THEN HttpErrorMessage(status, u)
    ELSE None

\* Mutant: the catch block retries every error, a 404 included.
IsTerminalNever(message) == FALSE

\* The catch block's test "Don't retry 404s" (line 50).
IsTerminal(message) == Includes(message, Str404)

\* Mutant: the exponent counts attempts from one.
DelayFromOne(n) == (2 ^ (n + 1)) * 1000

\* Math.pow(2, attempt) * 1000 (line 53)
Delay(n) == (2 ^ n) * 1000

\* The promise of fetchJson/fetchHtml rejects with `message`.
Reject(message) ==
    /\ pc' = "done"
    /\ outcome' = [state |-> "rejected", error |-> message]

\* The loop head (line 26) reached with loop variable n and last error e:
\* either the next fetch() is issued or the loop is left and line 59 throws.
LoopHead(n, e) ==
    /\ attempt' = n
    /\ IF n < maxRetries
       THEN /\ pc' = "awaitFetch"
            /\ nCalls' = nCalls + 1
            /\ outcome' = outcome
       ELSE /\ Reject(IF e = None THEN FailedToFetchMessage(url) ELSE e)
            /\ nCalls' = nCalls

\* fetchJson(u) / fetchHtml(u) is called: fetchWithRetry runs to its first await.
Call(u, k) ==
    /\ pc = "idle"
    /\ url' = u
    /\ kind' = k
    /\ attempt' = 0
    /\ pc' = "awaitFetch"
    /\ nCalls' = nCalls + 1
    /\ UNCHANGED <<lastError, response, outcome, history, errors, waits>>
    /\ FetchFrame

\* The catch block (lines 46-56) with the caught error `message`.
Catch(message) ==
    /\ lastError' = message
    /\ errors' = Append(errors, message)
    /\ IF IsTerminal(message)
       THEN /\ Reject(message)
            /\ UNCHANGED <<attempt, nCalls, waits>>
       ELSE IF attempt < maxRetries - 1
            THEN /\ pc' = "awaitDelay"
                 /\ waits' = Append(waits, Delay(attempt))
                 /\ UNCHANGED <<attempt, nCalls, outcome>>
            ELSE /\ LoopHead(attempt + 1, message)
                 /\ UNCHANGED waits

\* The awaited fetch() resolves with a response of the given status and body.
FetchResolves(status, body) ==
    /\ pc = "awaitFetch"
    /\ history' = Append(history, status)
    /\ IF ThrownFor(status, url) = None
       THEN /\ response' = [status |-> status, body |-> body]
            /\ pc' = "awaitBody"
            /\ UNCHANGED <<attempt, lastError, outcome, nCalls, errors, waits>>
       ELSE /\ Catch(ThrownFor(status, url))
            /\ UNCHANGED response
    /\ UNCHANGED <<url, kind>>
    /\ FetchFrame

\* The awaited fetch() rejects: timeout, DNS, connection reset (status 0 in the history).
FetchRejects(message) ==
    /\ pc = "awaitFetch"
    /\ history' = Append(history, 0)
    /\ Catch(message)
    /\ UNCHANGED <<url, kind, response>>
    /\ FetchFrame

\* The backoff timer fires (line 54): attempt++ and back to the loop head.
DelayElapses ==
    /\ pc = "awaitDelay"
    /\ LoopHead(attempt + 1, lastError)
    /\ UNCHANGED <<url, kind, lastError, response, history, errors, waits>>
    /\ FetchFrame

\* Mutant: a JSON parse failure is swallowed and an empty value returned.
BodySettlesSwallowed ==
    /\ pc = "awaitBody"
    /\ pc' = "done"
    /\ outcome' =
         IF kind = "json"
         THEN IF response.body.wellFormed
              THEN [state |-> "resolved", value |-> <<"parsed", response.body.text>>]
              ELSE [state |-> "resolved", value |-> <<"partial">>]
         ELSE [state |-> "resolved", value |-> <<"text", response.body.text>>]
    /\ UNCHANGED <<url, kind, attempt, lastError, response, nCalls, history, errors, waits>>
    /\ FetchFrame

\* response.json() (line 64) / response.text() (line 69) settles.
BodySettles ==
    /\ pc = "awaitBody"
    /\ pc' = "done"
    /\ outcome' =
         IF kind = "json"
         THEN IF response.body.wellFormed
              THEN [state |-> "resolved", value |-> <<"parsed", response.body.text>>]
              ELSE [state |-> "rejected", error |-> <<"S", "y", "n", "t", "a", "x">>]
         ELSE [state |-> "resolved", value |-> <<"text", response.body.text>>]
    /\ UNCHANGED <<url, kind, attempt, lastError, response, nCalls, history, errors, waits>>
    /\ FetchFrame

InitFetch ==
    /\ url = None
    /\ kind = "none"
    /\ pc = "idle"
    /\ attempt = 0
    /\ lastError = None
    /\ response = NoResponse
    /\ outcome = [state |-> "pending"]
    /\ nCalls = 0
    /\ history = <<>>
    /\ errors = <<>>
    /\ waits = <<>>

NextFetch ==
    \/ \E u \in Urls, k \in {"json", "html"} : Call(u, k)
    \/ \E s \in Statuses, b \in Bodies : FetchResolves(s, b)
    \/ \E m \in TransportMessages : FetchRejects(m)
    \/ DelayElapses
    \/ BodySettles

-----------------------------------------------------------------------------
(* The cache: lib/cache (src/unnamed/part_006) *)

\* Bound: how many times the clock advances in a behaviour.
MaxTicks == 1

\* The clock advances by 1 ms or by 10 ms at a time.
ClockSteps == {1, 10}

Keys == {"k1", "k2"}

\* Values the producers and callers store (the commands store the strings
\* they print); Undefined is JavaScript's undefined, cacheGet's "absent".
Values == {"v1", "v2"}
Undefined == "undefined"

\* Time-to-live arguments, in ms.
TTLs == {1, 60000}

\* The callers of cacheGetOrSet whose invocations may overlap.
Callers == {"A", "B"}

NotWritten == [value |-> Undefined, at |-> 0, ttl |-> 0]

\* Mutant: an entry expires one millisecond early.
ExpiredEarly(entry, t) == t >= entry.expiresAt

\* Date.now() > entry.expiresAt (line 11)
Expired(entry, t) == t > entry.expiresAt

\* The value cacheGet(key) returns at time t (lines 9-15).
CacheGetResult(st, key, t) ==
    IF key \notin DOMAIN st THEN Undefined
    ELSE IF Expired(st[key], t) THEN Undefined
    ELSE st[key].value

\* The store cacheGet(key) leaves behind at time t: store.delete(key) on an
\* expired entry (line 12).
CacheGetStore(st, key, t) ==
    IF key \in DOMAIN st /\ Expired(st[key], t)
    THEN [k \in DOMAIN st \ {key} |-> st[k]]
    ELSE st

\* Mutant: set keeps an entry that is already present.
CacheSetIfAbsent(st, key, value, ttlMs, t) ==
    IF key \in DOMAIN st THEN st
    ELSE [k \in DOMAIN st \cup {key} |->
            IF k = key THEN [value |-> value, expiresAt |-> t + ttlMs] ELSE st[k]]

\* The store after cacheSet(key, value, ttlMs) at time t (line 19).
CacheSetStore(st, key, value, ttlMs, t) ==
    [k \in DOMAIN st \cup {key} |->
        IF k = key THEN [value |-> value, expiresAt |-> t + ttlMs] ELSE st[k]]

IdleCall ==
    [pc |-> "idle", key |-> "none", ttl |-> 0, state |-> "pending", ret |-> Undefined,
     calls |-> 0, produced |-> Undefined]

\* history: the latest set of `key` has not expired at time t
Live(key) == written[key] # NotWritten /\ now <= written[key].at + written[key].ttl

\* A direct cacheGet(key), as in doc.ts line 38 and in the tests.
CacheGet(key) ==
    /\ got' = [key |-> key, value |-> CacheGetResult(store, key, now)]
    /\ store' = CacheGetStore(store, key, now)
    /\ UNCHANGED <<now, ticks, gos, written>>
    /\ CacheFrame

\* A direct cacheSet(key, value, ttlMs), as in doc.ts line 91 and in the tests.
CacheSet(key, value, ttlMs) ==
    /\ store' = CacheSetStore(store, key, value, ttlMs, now)
    /\ written' = [written EXCEPT ![key] = [value |-> value, at |-> now, ttl |-> ttlMs]]
    /\ got' = [key |-> "none", value |-> Undefined]
    /\ UNCHANGED <<now, ticks, gos>>
    /\ CacheFrame

\* Mutant: a call that finds a producer for its key in flight waits for that
\* producer instead of invoking its own (single flight).
GetOrSetCallSingleFlight(p, key, ttlMs) ==
    /\ gos[p].pc = "idle"
    /\ LET cached == CacheGetResult(store, key, now)
           inFlight == \E q \in Callers \ {p} : gos[q].pc = "awaitFn" /\ gos[q].key = key
       IN  gos' = [gos EXCEPT ![p] =
              IF cached # Undefined
              THEN [IdleCall EXCEPT !.pc = "done", !.key = key, !.state = "resolved",
                                    !.ret = cached]
              ELSE [IdleCall EXCEPT !.pc = "awaitFn", !.key = key, !.ttl = ttlMs,
                                    !.calls = IF inFlight THEN 0 ELSE 1]]
    /\ store' = CacheGetStore(store, key, now)
    /\ got' = [key |-> "none", value |-> Undefined]
    /\ UNCHANGED <<now, ticks, written>>
    /\ CacheFrame

\* cacheGetOrSet(key, fn, ttlMs) is called by p and runs to its first await
\* (lines 27-29): a hit returns, a miss invokes fn.
GetOrSetCall(p, key, ttlMs) ==
    /\ gos[p].pc = "idle"
    /\ LET cached == CacheGetResult(store, key, now)
       IN  gos' = [gos EXCEPT ![p] =
              IF cached # Undefined
              THEN [IdleCall EXCEPT !.pc = "done", !.key = key, !.state = "resolved",
                                    !.ret = cached]
              ELSE [IdleCall EXCEPT !.pc = "awaitFn", !.key = key, !.ttl = ttlMs, !.calls = 1]]
    /\ store' = CacheGetStore(store, key, now)
    /\ got' = [key |-> "none", value |-> Undefined]
    /\ UNCHANGED <<now, ticks, written>>
    /\ CacheFrame

\* p's producer resolves with `value`: cacheSet and return (lines 29-31).
ProducerResolves(p, value) ==
    /\ gos[p].pc = "awaitFn"
    /\ store' = CacheSetStore(store, gos[p].key, value, gos[p].ttl, now)
    /\ gos' = [gos EXCEPT ![p].pc = "done", ![p].state = "resolved", ![p].ret = value,
                          ![p].produced = value, ![p].ttl = 0]
    /\ written' = [written EXCEPT ![gos[p].key] =
                      [value |-> value, at |-> now, ttl |-> gos[p].ttl]]
    /\ got' = [key |-> "none", value |-> Undefined]
    /\ UNCHANGED <<now, ticks>>
    /\ CacheFrame

\* p's producer rejects: the await on line 29 throws, cacheSet is not reached.
ProducerRejects(p) ==
    /\ gos[p].pc = "awaitFn"
    /\ gos' = [gos EXCEPT ![p].pc = "done", ![p].state = "rejected", ![p].ttl = 0]
    /\ got' = [key |-> "none", value |-> Undefined]
    /\ UNCHANGED <<now, ticks, store, written>>
    /\ CacheFrame

\* Time passes.
Tick(d) ==
    /\ ticks < MaxTicks
    /\ now' = now + d
    /\ ticks' = ticks + 1
    /\ got' = [key |-> "none", value |-> Undefined]
    /\ UNCHANGED <<store, gos, written>>
    /\ CacheFrame

InitCache ==
    /\ now = 0
    /\ ticks = 0
    /\ store = <<>>
    /\ gos = [p \in Callers |-> IdleCall]
    /\ got = [key |-> "none", value |-> Undefined]
    /\ written = [k \in Keys |-> NotWritten]

NextCache ==
    \/ \E k \in Keys : CacheGet(k)
    \/ \E k \in Keys, v \in Values, t \in TTLs : CacheSet(k, v, t)
    \/ \E p \in Callers, k \in Keys, t \in TTLs : GetOrSetCall(p, k, t)
    \/ \E p \in Callers, v \in Values : ProducerResolves(p, v)
    \/ \E p \in Callers : ProducerRejects(p)
    \/ \E d \in ClockSteps : Tick(d)

-----------------------------------------------------------------------------
(* Cache keys: makeCacheKey, lib/cache (src/unnamed/part_006 lines 34-40) *)

\* Bound: the number of parameters of an object passed to makeCacheKey.
MaxParams == 2

StrQuery == <<"q", "u", "e", "r", "y">>
StrType == <<"t", "y", "p", "e">>
StrLimit == <<"l", "i", "m", "i", "t">>
StrSwift == <<"s", "w", "i", "f", "t">>
StrDoc == <<"d", "o", "c">>
StrSearch == <<"s", "e", "a", "r", "c", "h">>

Prefixes == {StrSearch, StrDoc}
ParamNames == {StrQuery, StrType, StrLimit}

\* A string that holds both separators of a key: "swift,type=doc".
StrSwiftCommaTypeDoc == StrSwift \o <<",">> \o StrType \o <<"=">> \o StrDoc

\* A parameter value: undefined or a string.
UndefinedParam == [defined |-> FALSE, str |-> <<>>]
ParamValues == {UndefinedParam} \cup [defined : {TRUE}, str : {StrSwift, StrDoc}]

\* The values with one more, a string that holds the separators.
SeparatorValues ==
    ParamValues \cup {[defined |-> TRUE, str |-> StrSwiftCommaTypeDoc]}

\* String(v)
StringOf(v) == v.str

Letters == <<"a", "b", "c", "d", "e", "f", "g", "h", "i", "j", "k", "l", "m",
             "n", "o", "p", "q", "r", "s", "t", "u", "v", "w", "x", "y", "z">>

Rank(c) == CHOOSE i \in 1..Len(Letters) : Letters[i] = c

\* a.localeCompare(b) on lower-case names: negative, zero or positive.
RECURSIVE LocaleCompare(_, _)
LocaleCompare(a, b) ==
    IF a = <<>> /\ b = <<>> THEN 0
    ELSE IF a = <<>> THEN -1
    ELSE IF b = <<>> THEN 1
    ELSE IF Rank(Head(a)) < Rank(Head(b)) THEN -1
    ELSE IF Rank(Head(a)) > Rank(Head(b)) THEN 1
    ELSE LocaleCompare(Tail(a), Tail(b))

\* .filter(([, v]) => v !== undefined)
FilterDefined(entries) == SelectSeq(entries, LAMBDA en : en.value # UndefinedParam)

InsertByName(en, sorted) ==
    LET k == Cardinality({i \in 1..Len(sorted) : LocaleCompare(sorted[i].name, en.name) <= 0})
    IN  SubSeq(sorted, 1, k) \o <<en>> \o SubSeq(sorted, k + 1, Len(sorted))

\* Mutant: the entries are left in insertion order.
SortUnsorted(entries) == entries

\* .sort(([a], [b]) => a.localeCompare(b)): a stable sort by name
RECURSIVE SortByName(_)
SortByName(entries) ==
    IF entries = <<>> THEN <<>>
    ELSE InsertByName(entries[Len(entries)], SortByName(SubSeq(entries, 1, Len(entries) - 1)))

\* `${k}=${String(v)}`
Part(en) == en.name \o <<"=">> \o StringOf(en.value)

\* parts.join(',')
RECURSIVE Join(_)
Join(parts) ==
    IF parts = <<>> THEN <<>>
    ELSE IF Len(parts) = 1 THEN parts[1]
    ELSE parts[1] \o <<",">> \o Join(Tail(parts))

MakeCacheKey(pre, entries) ==
    LET sorted == SortByName(FilterDefined(entries))
    IN  pre \o <<":">> \o Join([i \in 1..Len(sorted) |-> Part(sorted[i])])

\* The objects makeCacheKey may be given: up to MaxParams entries, each
\* name at most once, in any insertion order.
ParamObjects ==
    UNION { { en \in [1..n -> [name : ParamNames, value : ParamValues]] :
                \A i, j \in 1..n : i # j => en[i].name # en[j].name } : n \in 0..MaxParams }

\* The same objects, over the values that may hold the separators.
SeparatorObjects ==
    UNION { { en \in [1..n -> [name : ParamNames, value : SeparatorValues]] :
                \A i, j \in 1..n : i # j => en[i].name # en[j].name } : n \in 0..MaxParams }

\* Call number i of makeCacheKey(prefix, params[i]) returns.
MakeKey(i) ==
    /\ keyOut[i] = None
    /\ params[i] \in SeparatorObjects
    /\ keyOut' = [keyOut EXCEPT ![i] = MakeCacheKey(prefix, params[i])]
    /\ UNCHANGED <<prefix, params>>
    /\ KeyFrame

\* No call of makeCacheKey is under way (the other specifications).
InitKeyIdle ==
    /\ prefix = <<>>
    /\ params = [i \in 1..2 |-> <<>>]
    /\ keyOut = [i \in 1..2 |-> None]

\* Two calls with the same prefix and any two objects.
InitKey ==
    /\ prefix \in Prefixes
    /\ params \in [1..2 -> ParamObjects]
    /\ keyOut = [i \in 1..2 |-> None]

\* Two calls with the same prefix and any two objects whose values may
\* hold the separators.
InitKeySeparators ==
    /\ prefix \in Prefixes
    /\ params \in [1..2 -> SeparatorObjects]
    /\ keyOut = [i \in 1..2 |-> None]

NextKey == \E i \in 1..2 : MakeKey(i)

-----------------------------------------------------------------------------
(* Name patterns: matchesPattern, commands/symbols (src/unnamed/part_002) *)

MaxName == 3

MaxPattern == 3

StrView == <<"V", "i", "e", "w">>
StrViewer == <<"V", "i", "e", "w", "e", "r">>
StrNavigationView ==
    <<"N", "a", "v", "i", "g", "a", "t", "i", "o", "n", "V", "i", "e", "w">>
StrStarView == <<"*", "V", "i", "e", "w">>

\* The characters names are drawn from: a letter in both cases and a
\* character that a regular expression reads as an operator.
NameChars == {"v", "V", "."}

\* The characters patterns are drawn from: the wildcard, a letter and '.'.
PatternChars == {"*", "v", "."}

StringsOver(chars, n) == UNION {[1..k -> chars] : k \in 0..n}

Names == StringsOver(NameChars, MaxName) \cup {StrView, StrViewer, StrNavigationView}

Patterns == StringsOver(PatternChars, MaxPattern) \cup {StrStarView}

\* pattern.split('*'): the pieces between the occurrences of the separator.
RECURSIVE Split(_, _)
Split(s, sep) ==
    LET at == {i \in 1..Len(s) : s[i] = sep}
    IN IF at = {}
       THEN <<s>>
       ELSE LET i == CHOOSE j \in at : \A k \in at : j <= k
            IN <<SubSeq(s, 1, i - 1)>> \o Split(SubSeq(s, i + 1, Len(s)), sep)

\* The class [.*+?^${}()|[\]\\] of line 154.
RegexSpecials == {".", "*", "+", "?", "^", "$", "{", "}", "(", ")", "|", "[", "]", "\\"}

\* part.replace(/[...]/g, '\\$&') with every special character left as it is.
RECURSIVE EscapeNothing(_)
EscapeNothing(part) ==
    IF part = <<>> THEN <<>> ELSE <<Head(part)>> \o EscapeNothing(Tail(part))

\* part.replace(/[.*+?^${}()|[\]\\]/g, '\\$&'): a backslash before every
\* special character.
RECURSIVE Escape(_)
Escape(part) ==
    IF part = <<>>
    THEN <<>>
    ELSE (IF Head(part) \in RegexSpecials THEN <<"\\", Head(part)>> ELSE <<Head(part)>>)
         \o Escape(Tail(part))

\* parts.join(sep)
RECURSIVE JoinWith(_, _)
JoinWith(parts, sep) ==
    IF parts = <<>> THEN <<>>
    ELSE IF Len(parts) = 1 THEN parts[1]
    ELSE parts[1] \o sep \o JoinWith(Tail(parts), sep)

\* The source text of the expression built in lines 152-155.
RegexPattern(pattern) ==
    JoinWith([i \in 1..Len(Split(pattern, "*")) |-> Escape(Split(pattern, "*")[i])],
             <<".", "*">>)

\* Canonicalisation under the flag 'i', for the letters of the model.
FoldCase(c) ==
    CASE c = "V" -> "v"
      [] c = "N" -> "n"
      [] OTHER -> c

\* '.' matches every character but a line terminator.
LineTerminators == {"\n", "\r"}

\* One atom of the expression against one character: an escaped character
\* and a plain character stand for themselves, '.' for any character.
AtomMatches(atom, c) ==
    IF atom.any THEN c \notin LineTerminators ELSE FoldCase(atom.char) = FoldCase(c)

\* new RegExp('^' + re + '$', 'i').test(s), for the expressions made of
\* characters, escaped characters, '.' and the postfix '*'.
RECURSIVE RegexTest(_, _)
RegexTest(re, s) ==
    IF re = <<>>
    THEN s = <<>>
    ELSE LET escaped == re[1] = "\\" /\ Len(re) >= 2
             atom == IF escaped
                     THEN [any |-> FALSE, char |-> re[2]]
                     ELSE [any |-> re[1] = ".", char |-> re[1]]
             rest == SubSeq(re, IF escaped THEN 3 ELSE 2, Len(re))
         IN IF rest # <<>> /\ rest[1] = "*"
            THEN \E k \in 0..Len(s) :
                    /\ \A j \in 1..k : AtomMatches(atom, s[j])
                    /\ RegexTest(Tail(rest), SubSeq(s, k + 1, Len(s)))
            ELSE /\ s # <<>>
                 /\ AtomMatches(atom, s[1])
                 /\ RegexTest(rest, Tail(s))

\* matchesPattern with the parts joined unescaped.
matchesPatternUnescaped(name, pattern) ==
    RegexTest(JoinWith([i \in 1..Len(Split(pattern, "*")) |->
                            EscapeNothing(Split(pattern, "*")[i])],
                       <<".", "*">>),
              name)

matchesPattern(name, pattern) == RegexTest(RegexPattern(pattern), name)

\* One call matchesPattern(mName, mPattern).
Match ==
    /\ ~mDone
    /\ mResult' = matchesPattern(mName, mPattern)
    /\ mDone' = TRUE
    /\ UNCHANGED <<mName, mPattern>>
    /\ MatchFrame

InitMatchIdle ==
    /\ mName = <<>>
    /\ mPattern = <<>>
    /\ mResult = FALSE
    /\ mDone = TRUE

InitMatch ==
    /\ mName \in Names
    /\ mPattern \in Patterns
    /\ mResult = FALSE
    /\ mDone = FALSE

NextMatch == Match

-----------------------------------------------------------------------------
(* The symbols walk: findSymbolsRecursive, commands/symbols                 *)
(* (src/unnamed/part_002 lines 159-195)                                     *)

MaxNodes == 3

MaxChain == 10

MaxLimit == 2

\* The depth beyond which a list is not visited (line 167).
MaxWalkDepth == 6

TypeAll == "all"
TypeClass == "class"
TypeStruct == "struct"
TypeGroupMarker == "groupMarker"

StrPad == <<"P", "a", "d">>

\* What a drawn node carries: its type and its title.
Payloads == [type : {TypeClass, TypeGroupMarker}, title : {StrView, StrViewer}]

\* The node that pads a chain: a struct whose title ends in no "View".
Filler == [type |-> TypeStruct, title |-> StrPad]

\* A tree in outline: its nodes in document order, each with its depth; a
\* node is a child of the nearest earlier node one level up.
DepthSeqs(n) ==
    {d \in [1..n -> 0..(n - 1)] :
        /\ n > 0 => d[1] = 0
        /\ \A i \in 1..(n - 1) : d[i + 1] <= d[i] + 1}

Outlines ==
    UNION {{[i \in 1..n |-> [depth |-> d[i], type |-> p[i].type, title |-> p[i].title]] :
                d \in DepthSeqs(n), p \in [1..n -> Payloads]} : n \in 0..MaxNodes}

\* A single path n nodes long, padded but for the node at level k.
Chains ==
    {[i \in 1..n |-> [depth |-> i - 1,
                      type |-> IF i = k THEN pay.type ELSE Filler.type,
                      title |-> IF i = k THEN pay.title ELSE Filler.title]] :
        n \in 1..MaxChain, k \in 1..MaxChain, pay \in Payloads}

\* The IndexItem lists of an outline: `path` names the node (its place in
\* the outline); an absent `children` is the empty list, both are skipped
\* or walked to no effect.
RECURSIVE ItemsOf(_, _, _, _)
ItemsOf(o, lo, hi, d) ==
    IF lo > hi
    THEN <<>>
    ELSE LET tops == {j \in (lo + 1)..hi : o[j].depth = d}
             end == IF tops = {} THEN hi
                    ELSE (CHOOSE j \in tops : \A k \in tops : j <= k) - 1
         IN <<[path |-> lo, type |-> o[lo].type, title |-> o[lo].title,
               children |-> ItemsOf(o, lo + 1, end, d + 1)]>>
            \o ItemsOf(o, end + 1, hi, d)

Indexes == {ItemsOf(o, 1, Len(o), 0) : o \in Outlines \cup Chains}

SymbolTypes == {TypeAll, TypeClass}

NamePatterns == {<<>>, StrStarView}

\* Lines 174-178: the item is pushed when its type and its title pass.
Selected(item, st, np) ==
    /\ st = TypeAll \/ item.type = st
    /\ np = <<>> \/ matchesPattern(item.title, np)

\* findSymbolsRecursive with the test of line 171 dropped: the loop never
\* stops for a full accumulator.
RECURSIVE FindAllSymbols(_, _, _, _, _, _)
FindAllSymbols(its, st, np, lim, syms, depth) ==
    IF depth > MaxWalkDepth \/ its = <<>>
    THEN [stop |-> FALSE, symbols |-> syms]
    ELSE LET item == Head(its)
             pushed == IF Selected(item, st, np) THEN Append(syms, item) ELSE syms
             below == FindAllSymbols(item.children, st, np, lim, pushed, depth + 1)
         IN FindAllSymbols(Tail(its), st, np, lim, below.symbols, depth)

\* findSymbolsRecursive with no depth test.
RECURSIVE FindSymbolsAnyDepth(_, _, _, _, _, _)
FindSymbolsAnyDepth(its, st, np, lim, syms, depth) ==
    IF its = <<>>
    THEN [stop |-> FALSE, symbols |-> syms]
    ELSE IF Len(syms) >= lim
    THEN [stop |-> TRUE, symbols |-> syms]
    ELSE LET item == Head(its)
             pushed == IF Selected(item, st, np) THEN Append(syms, item) ELSE syms
             below == IF item.children # <<>> /\ Len(pushed) < lim
                      THEN FindSymbolsAnyDepth(item.children, st, np, lim, pushed, depth + 1)
                      ELSE [stop |-> FALSE, symbols |-> pushed]
         IN IF below.stop
            THEN below
            ELSE FindSymbolsAnyDepth(Tail(its), st, np, lim, below.symbols, depth)

\* The loop of lines 169-192 from the item at `its`' head on, and the call
\* itself: `stop` is the boolean returned, `symbols` the accumulator after.
RECURSIVE WalkItems(_, _, _, _, _, _)
RECURSIVE findSymbolsRecursive(_, _, _, _, _, _)
WalkItems(its, st, np, lim, syms, depth) ==
    IF its = <<>>
    THEN [stop |-> FALSE, symbols |-> syms]
    ELSE IF Len(syms) >= lim
    THEN [stop |-> TRUE, symbols |-> syms]
    ELSE LET item == Head(its)
             pushed == IF Selected(item, st, np) THEN Append(syms, item) ELSE syms
             below == IF item.children # <<>> /\ Len(pushed) < lim
                      THEN findSymbolsRecursive(item.children, st, np, lim, pushed, depth + 1)
                      ELSE [stop |-> FALSE, symbols |-> pushed]
         IN IF below.stop
            THEN below
            ELSE WalkItems(Tail(its), st, np, lim, below.symbols, depth)

findSymbolsRecursive(its, st, np, lim, syms, depth) ==
    IF depth > MaxWalkDepth
    THEN [stop |-> FALSE, symbols |-> syms]
    ELSE WalkItems(its, st, np, lim, syms, depth)

\* The root call of line 261: findSymbolsRecursive(items, symbolType,
\* namePattern, limit, symbols) with symbols = [] and depth = 0.
Walk ==
    /\ ~walked
    /\ symbols' = findSymbolsRecursive(index, symbolType, namePattern, limit, <<>>, 0).symbols
    /\ walked' = TRUE
    /\ UNCHANGED <<index, symbolType, namePattern, limit>>
    /\ WalkFrame

InitWalkIdle ==
    /\ index = <<>>
    /\ symbolType = TypeAll
    /\ namePattern = <<>>
    /\ limit = 1
    /\ symbols = <<>>
    /\ walked = TRUE

InitWalk ==
    /\ index \in Indexes
    /\ symbolType \in SymbolTypes
    /\ namePattern \in NamePatterns
    /\ limit \in 1..MaxLimit
    /\ symbols = <<>>
    /\ walked = FALSE

NextWalk == Walk

-----------------------------------------------------------------------------
(* Sample code: commands/samples.ts *)

MaxSamples == 2

\* An optional field of upstream JSON or an optional argument: absent, or
\* present with a value.
Absent == [defined |-> FALSE, value |-> <<>>]

Some(v) == [defined |-> TRUE, value |-> v]

\* x ?? []
OrEmpty(x) == IF x.defined THEN x.value ELSE <<>>

Uppers == <<"A", "B", "C", "D", "E", "F", "G", "H", "I", "J", "K", "L", "M",
            "N", "O", "P", "Q", "R", "S", "T", "U", "V", "W", "X", "Y", "Z">>

\* String.prototype.toLowerCase, on the 26 letters.
ToLowerCase(s) ==
    [i \in 1..Len(s) |->
        IF \E k \in 1..26 : Uppers[k] = s[i]
        THEN Letters[CHOOSE k \in 1..26 : Uppers[k] = s[i]]
        ELSE s[i]]

\* charAt(0).toUpperCase() + slice(1)
Capitalize(s) ==
    IF s = <<>> THEN <<>>
    ELSE <<IF \E k \in 1..26 : Letters[k] = s[1]
           THEN Uppers[CHOOSE k \in 1..26 : Letters[k] = s[1]]
           ELSE s[1]>> \o Tail(s)

\* String.prototype.trim, for the space character.
RECURSIVE TrimStart(_)
TrimStart(s) == IF s # <<>> /\ Head(s) = " " THEN TrimStart(Tail(s)) ELSE s

RECURSIVE TrimEnd(_)
TrimEnd(s) ==
    IF s # <<>> /\ s[Len(s)] = " " THEN TrimEnd(SubSeq(s, 1, Len(s) - 1)) ELSE s

Trim(s) == TrimEnd(TrimStart(s))

StrSwiftui == <<"s", "w", "i", "f", "t", "u", "i">>
StrSwiftUI == <<"S", "w", "i", "f", "t", "U", "I">>
StrUikit == <<"u", "i", "k", "i", "t">>
StrUIKit == <<"U", "I", "K", "i", "t">>
StrCoreml == <<"c", "o", "r", "e", "m", "l">>
StrCoreML == <<"C", "o", "r", "e", " ", "M", "L">>
StrSamplecode == <<"s", "a", "m", "p", "l", "e", "c", "o", "d", "e">>
StrDocumentation == <<"d", "o", "c", "u", "m", "e", "n", "t", "a", "t", "i", "o", "n">>
StrDocumentationSlash ==
    <<"/", "d", "o", "c", "u", "m", "e", "n", "t", "a", "t", "i", "o", "n", "/">>
StrDocScheme ==
    <<"d", "o", "c", ":", "/", "/", "c", "o", "m", ".", "a", "p", "p", "l", "e", ".",
      "d", "o", "c", "u", "m", "e", "n", "t", "a", "t", "i", "o", "n">>
StrAppleOrigin ==
    <<"h", "t", "t", "p", "s", ":", "/", "/", "d", "e", "v", "e", "l", "o", "p", "e",
      "r", ".", "a", "p", "p", "l", "e", ".", "c", "o", "m">>

\* The known framework slugs, with their canonical names.
FrameworkTable ==
    <<[slug |-> StrSwiftui, name |-> StrSwiftUI],
      [slug |-> StrUikit, name |-> StrUIKit],
      [slug |-> StrCoreml, name |-> StrCoreML]>>

\* The normalisation with a lookup that tells upper case from lower case.
normalizeFrameworkExact(name) ==
    LET key == Trim(name)
        hits == {i \in 1..Len(FrameworkTable) : FrameworkTable[i].slug = key}
    IN IF hits # {}
       THEN FrameworkTable[CHOOSE i \in hits : TRUE].name
       ELSE Capitalize(Trim(name))

\* normalizeFramework (lib/frameworks): the canonical name of a known slug,
\* looked up trimmed and without regard to case; any other name trimmed,
\* with its first character in upper case; '' for ''.
normalizeFramework(name) ==
    LET key == ToLowerCase(Trim(name))
        hits == {i \in 1..Len(FrameworkTable) : FrameworkTable[i].slug = key}
    IN IF hits # {}
       THEN FrameworkTable[CHOOSE i \in hits : TRUE].name
       ELSE Capitalize(Trim(name))

\* path.match(/^\/documentation\/([^/]+)\//): the first segment after
\* '/documentation/', when it is not empty and a '/' follows it; <<>> is the
\* null of no match.
PathSegment(path) ==
    LET n == Len(StrDocumentationSlash)
        slashes == {i \in (n + 1)..Len(path) : path[i] = "/"}
    IN IF Len(path) > n /\ SubSeq(path, 1, n) = StrDocumentationSlash /\ slashes # {}
       THEN SubSeq(path, n + 1, (CHOOSE i \in slashes : \A j \in slashes : i <= j) - 1)
       ELSE <<>>

\* extractFrameworkFromPath, lines 49-57 (<<>> for null).
extractFrameworkFromPath(path) ==
    LET fw == PathSegment(path)
    IN IF fw = <<>> \/ fw = StrSamplecode \/ fw = StrDocumentation
       THEN <<>>
       ELSE normalizeFramework(fw)

TypeSampleCode == "sampleCode"
TypeCollection == "collection"

\* node.beta: absent, true or false.
BetaAbsent == "undefined"
BetaTrue == "true"
BetaFalse == "false"

\* frameworkMap.get(docUrl): the title of the last section that lists the
\* identifier (<<>> for undefined). The map is a sequence of [id, title]
\* in the order of the set() calls.
MapGet(map, id) ==
    LET at == {i \in 1..Len(map) : map[i].id = id}
    IN IF at = {} THEN <<>> ELSE map[CHOOSE i \in at : \A j \in at : j <= i].title

\* a || b on strings
OrElse(a, b) == IF a # <<>> THEN a ELSE b

\* The record pushed in lines 88-96; an undefined framework is <<>>.
ParsedSampleCode(node, frameworkMap, featuredIds, currentFramework, depth) ==
    LET docUrl == StrDocScheme \o node.path
    IN [title |-> node.title,
        framework |-> normalizeFramework(
                         OrElse(extractFrameworkFromPath(node.path),
                                OrElse(MapGet(frameworkMap, docUrl), currentFramework))),
        beta |-> node.beta = BetaTrue,
        featured |-> docUrl \in featuredIds,
        url |-> StrAppleOrigin \o node.path,
        path |-> node.path,
        depth |-> depth]

\* processSampleCodeNodes, lines 59-108: the array sampleCodes (here `codes`) after the
\* call. An absent `children` and an absent `path` are the empty sequence.
RECURSIVE processSampleCodeNodes(_, _, _, _, _, _)
processSampleCodeNodes(nodes, codes, frameworkMap, featuredIds, currentFramework, depth) ==
    IF nodes = <<>>
    THEN codes
    ELSE LET node == Head(nodes)
             after ==
                IF node.type = TypeGroupMarker
                THEN IF node.children # <<>>
                     THEN processSampleCodeNodes(node.children, codes, frameworkMap,
                              featuredIds, normalizeFramework(node.title), depth + 1)
                     ELSE codes
                ELSE IF node.type = TypeSampleCode /\ node.path # <<>>
                THEN Append(codes,
                            ParsedSampleCode(node, frameworkMap, featuredIds,
                                             currentFramework, depth))
                ELSE IF node.children # <<>>
                THEN processSampleCodeNodes(node.children, codes, frameworkMap,
                         featuredIds, currentFramework, depth + 1)
                ELSE codes
         IN processSampleCodeNodes(Tail(nodes), after, frameworkMap, featuredIds,
                                   currentFramework, depth)

\* Lines 174-180: the entry kept for a path met again.
Merge(existing, code) ==
    [existing EXCEPT
        !.framework = OrElse(code.framework, existing.framework),
        !.featured = code.featured \/ existing.featured,
        !.beta = code.beta \/ existing.beta,
        !.depth = IF code.depth < existing.depth THEN code.depth ELSE existing.depth]

\* Deduplicate with a path met again left as it was first stored.
RECURSIVE DeduplicateKeepFirst(_, _)
DeduplicateKeepFirst(codes, uniqueMap) ==
    IF codes = <<>>
    THEN uniqueMap
    ELSE DeduplicateKeepFirst(Tail(codes),
             IF \E i \in 1..Len(uniqueMap) : uniqueMap[i].path = Head(codes).path
             THEN uniqueMap
             ELSE Append(uniqueMap, Head(codes)))

\* Lines 168-183: uniqueMap, a Map keyed by path, as the sequence of its
\* values in insertion order (Array.from(uniqueMap.values())).
RECURSIVE Deduplicate(_, _)
Deduplicate(codes, uniqueMap) ==
    IF codes = <<>>
    THEN uniqueMap
    ELSE LET code == Head(codes)
             at == {i \in 1..Len(uniqueMap) : uniqueMap[i].path = code.path}
         IN Deduplicate(Tail(codes),
                IF at = {}
                THEN Append(uniqueMap, code)
                ELSE [uniqueMap EXCEPT ![CHOOSE i \in at : TRUE] =
                                           Merge(uniqueMap[CHOOSE i \in at : TRUE], code)])

\* Lines 133-142: the identifiers of the featured samples.
FeaturedIds(content) ==
    LET sections == OrEmpty(content.primaryContentSections)
    IN UNION {UNION {{OrEmpty(item.items)[k] : k \in 1..Len(OrEmpty(item.items))} :
                        item \in {OrEmpty(sections[i].content)[j] :
                                     j \in {j \in 1..Len(OrEmpty(sections[i].content)) :
                                              OrEmpty(sections[i].content)[j].type = "links"}}} :
                 i \in {i \in 1..Len(sections) : sections[i].kind = "content"}}

\* What a step that may throw gives: the value, or the error thrown.
Returned(v) == [threw |-> FALSE, message |-> "", value |-> v]

Thrown(message) == [threw |-> TRUE, message |-> message, value |-> <<>>]

\* The TypeError of `for (const id of undefined)`.
NotIterable == "TypeError: undefined is not iterable"

\* The TypeError of Object.entries(undefined).
NotAnObject == "TypeError: cannot convert undefined to object"

\* Lines 145-150: the map from identifier to section title, as the
\* sequence of its set() calls; line 147 iterates section.identifiers as
\* it is.
RECURSIVE FrameworkMapFrom(_, _)
FrameworkMapFrom(sections, map) ==
    IF sections = <<>>
    THEN Returned(map)
    ELSE IF ~Head(sections).identifiers.defined
    THEN Thrown(NotIterable)
    ELSE FrameworkMapFrom(Tail(sections),
             map \o [k \in 1..Len(Head(sections).identifiers.value) |->
                        [id |-> Head(sections).identifiers.value[k],
                         title |-> Head(sections).title]])

\* Lines 153-165: the walk of every language's list, in the order of
\* Object.entries.
RECURSIVE ParseIndex(_, _, _, _)
ParseIndex(lists, codes, frameworkMap, featuredIds) ==
    IF lists = <<>>
    THEN codes
    ELSE ParseIndex(Tail(lists),
                    processSampleCodeNodes(Head(lists), codes, frameworkMap,
                                           featuredIds, <<>>, 0),
                    frameworkMap, featuredIds)

\* Lines 186-197: the framework filter.
FilterFramework(results, framework) ==
    IF framework = <<>>
    THEN results
    ELSE LET fwLower == ToLowerCase(normalizeFramework(framework))
         IN SelectSeq(results,
                LAMBDA c :
                    LET codeFw == ToLowerCase(normalizeFramework(c.framework))
                    IN \/ fwLower = codeFw
                       \/ Includes(codeFw, fwLower)
                       \/ Includes(ToLowerCase(c.title), fwLower)
                       \/ Includes(ToLowerCase(c.path), fwLower))

\* Lines 198-199: the beta filter.
FilterBeta(results, beta) ==
    IF beta = "exclude" THEN SelectSeq(results, LAMBDA c : ~c.beta)
    ELSE IF beta = "only" THEN SelectSeq(results, LAMBDA c : c.beta)
    ELSE results

\* Lines 200-208: the free-text filter.
FilterSearch(results, searchQuery) ==
    IF searchQuery = <<>>
    THEN results
    ELSE LET q == ToLowerCase(searchQuery)
         IN SelectSeq(results,
                LAMBDA c :
                    \/ Includes(ToLowerCase(c.title), q)
                    \/ Includes(ToLowerCase(c.framework), q)
                    \/ Includes(ToLowerCase(c.path), q))

\* A comparator on the titles alone.
CompareTitles(a, b) == LocaleCompare(a.title, b.title)

\* The comparator of lines 213-217.
CompareSamples(a, b) ==
    IF a.featured /\ ~b.featured THEN -1
    ELSE IF ~a.featured /\ b.featured THEN 1
    ELSE LocaleCompare(a.title, b.title)

\* Array.prototype.sort with that comparator: a stable sort.
InsertSample(sorted, c) ==
    LET before == {i \in 1..Len(sorted) : CompareSamples(sorted[i], c) <= 0}
        k == IF before = {} THEN 0 ELSE CHOOSE i \in before : \A j \in before : j <= i
    IN SubSeq(sorted, 1, k) \o <<c>> \o SubSeq(sorted, k + 1, Len(sorted))

RECURSIVE SortSamples(_)
SortSamples(results) ==
    IF results = <<>> THEN <<>>
    ELSE InsertSample(SortSamples(SubSeq(results, 1, Len(results) - 1)),
                      results[Len(results)])

\* results.slice(0, n), n >= 0
Slice(results, n) == SubSeq(results, 1, IF n < Len(results) THEN n ELSE Len(results))

SamplePathA ==
    <<"/", "d", "o", "c", "u", "m", "e", "n", "t", "a", "t", "i", "o", "n", "/", "s",
      "w", "i", "f", "t", "u", "i", "/", "a">>
SamplePathB ==
    <<"/", "d", "o", "c", "u", "m", "e", "n", "t", "a", "t", "i", "o", "n", "/", "s",
      "a", "m", "p", "l", "e", "c", "o", "d", "e", "/", "b">>

\* The sample nodes drawn: with one of two paths or with none, with a
\* beta flag or without.
SampleLeaves ==
    {[type |-> TypeSampleCode, title |-> t.title, path |-> t.path, beta |-> b,
      children |-> <<>>] :
        t \in {[title |-> <<"a">>, path |-> SamplePathA],
               [title |-> <<"b">>, path |-> SamplePathB],
               [title |-> <<"c">>, path |-> <<>>]},
        b \in {BetaAbsent, BetaTrue}}

LeafLists == {<<>>} \cup {<<n>> : n \in SampleLeaves}

\* The nodes drawn for the top of a language's list: a sample, a group
\* marker over samples, a collection over samples.
TopNodes ==
    SampleLeaves
    \cup {[type |-> TypeGroupMarker, title |-> StrUikit, path |-> <<>>,
           beta |-> BetaAbsent, children |-> l] : l \in LeafLists}
    \cup {[type |-> TypeCollection, title |-> <<"c">>, path |-> <<>>,
           beta |-> BetaAbsent, children |-> l] : l \in LeafLists}

MaxTop == 1

\* indexData: interfaceLanguages absent, or with one or two languages.
IndexDatas ==
    {[interfaceLanguages |-> Absent]}
    \cup {[interfaceLanguages |-> Some(<<swift>>)] :
            swift \in UNION {[1..n -> TopNodes] : n \in 0..MaxTop}}
    \cup {[interfaceLanguages |-> Some(<<swift, occ>>)] :
            swift \in UNION {[1..n -> TopNodes] : n \in 0..MaxTop}, occ \in LeafLists}

\* contentData: each optional part absent, empty or filled; a topic
\* section with its identifiers or without.
ContentDatas ==
    [primaryContentSections :
        {Absent, Some(<<>>),
         Some(<<[kind |-> "content",
                 content |-> Some(<<[type |-> "links",
                                     items |-> Some(<<StrDocScheme \o SamplePathA>>)]>>)]>>)},
     topicSections :
        {Absent, Some(<<>>),
         Some(<<[title |-> StrCoreml, identifiers |-> Absent]>>),
         Some(<<[title |-> StrCoreml,
                 identifiers |-> Some(<<StrDocScheme \o SamplePathB>>)]>>)}]

\* The arguments of getSampleCode; <<>> is an undefined framework or query.
SampleArgs ==
    [framework : {<<>>, StrSwiftui},
     beta : {"include", "exclude", "only"},
     searchQuery : {<<>>, <<"a">>},
     limit : {1, 50}]

NoOutcome == [kind |-> "pending", message |-> ""]

\* The lists of parsed records drawn for the deduplication alone.
DrawnCodes ==
    UNION {[1..n -> [title : {<<"a">>}, framework : {<<>>, StrSwiftUI}, beta : BOOLEAN,
                     featured : BOOLEAN, url : {StrAppleOrigin},
                     path : {SamplePathA, SamplePathB}, depth : {0, 1}]] :
              n \in 0..MaxSamples}

MaxArrange == 2

\* The path of the i-th record of a deduplicated list: the paths differ.
ArrangePath(i) == SubSeq(SamplePathB, 1, Len(SamplePathB) - 1) \o [k \in 1..i |-> "x"]

\* The deduplicated lists drawn for the filters and the sort: records
\* titled a (of SwiftUI) or b (of no framework), featured or not, beta or
\* not.
ArrangeLists ==
    UNION {{[i \in 1..n |->
               [title |-> f[i].title,
                framework |-> IF f[i].title = <<"a">> THEN StrSwiftUI ELSE <<>>,
                beta |-> f[i].beta, featured |-> f[i].featured, url |-> StrAppleOrigin,
                path |-> ArrangePath(i), depth |-> 0]] :
              f \in [1..n -> [title : {<<"a">>, <<"b">>}, beta : BOOLEAN,
                              featured : BOOLEAN]]} :
           n \in 0..MaxArrange}

\* The arguments drawn with them; the CLI admits limits from 1 to 200.
ArrangeArgs ==
    [framework : {<<>>, StrSwiftui},
     beta : {"include", "exclude", "only"},
     searchQuery : {<<>>, <<"B">>},
     limit : 1..MaxArrange]

\* The continuation of the producer of getSampleCode once both fetches
\* have resolved (lines 132-226): it returns the records to format, or an
\* exception leaves it and the catch of line 230 makes it an error string.
ProduceSamples ==
    /\ samplePc = "awaitFetches"
    /\ LET featuredIds == FeaturedIds(contentData)
           frameworkMap == FrameworkMapFrom(OrEmpty(contentData.topicSections), <<>>)
           parsed == ParseIndex(indexData.interfaceLanguages.value, <<>>,
                                frameworkMap.value, featuredIds)
           unique == Deduplicate(parsed, <<>>)
           filtered == FilterSearch(FilterBeta(FilterFramework(unique, sampleArgs.framework),
                                               sampleArgs.beta),
                                    sampleArgs.searchQuery)
       IN IF frameworkMap.threw
          THEN /\ sampleOutcome' = [kind |-> "error", message |-> frameworkMap.message]
               /\ UNCHANGED <<sampleCodes, uniqueCodes, sampleResults, totalFound>>
          ELSE IF ~indexData.interfaceLanguages.defined
          THEN /\ sampleOutcome' = [kind |-> "error", message |-> NotAnObject]
               /\ UNCHANGED <<sampleCodes, uniqueCodes, sampleResults, totalFound>>
          ELSE /\ sampleCodes' = parsed
               /\ uniqueCodes' = unique
               /\ totalFound' = Len(filtered)
               /\ sampleResults' = Slice(SortSamples(filtered), sampleArgs.limit)
               /\ sampleOutcome' = [kind |-> "ok", message |-> ""]
    /\ samplePc' = "done"
    /\ UNCHANGED <<sampleArgs, contentData, indexData>>
    /\ SamplesFrame

\* The deduplication of lines 168-183 applied to a list of parsed records.
DeduplicateCodes ==
    /\ samplePc = "parsed"
    /\ uniqueCodes' = Deduplicate(sampleCodes, <<>>)
    /\ samplePc' = "deduplicated"
    /\ UNCHANGED <<sampleArgs, contentData, indexData, sampleCodes, sampleResults,
                   totalFound, sampleOutcome>>
    /\ SamplesFrame

\* The filters, the sort and the truncation of lines 185-226 applied to a
\* list of deduplicated records.
ArrangeSamples ==
    /\ samplePc = "deduplicated"
    /\ LET filtered == FilterSearch(FilterBeta(FilterFramework(uniqueCodes,
                                                              sampleArgs.framework),
                                               sampleArgs.beta),
                                    sampleArgs.searchQuery)
       IN /\ totalFound' = Len(filtered)
          /\ sampleResults' = Slice(SortSamples(filtered), sampleArgs.limit)
    /\ sampleOutcome' = [kind |-> "ok", message |-> ""]
    /\ samplePc' = "done"
    /\ UNCHANGED <<sampleArgs, contentData, indexData, sampleCodes, uniqueCodes>>
    /\ SamplesFrame

IdleSampleData ==
    /\ sampleArgs = [framework |-> <<>>, beta |-> "include", searchQuery |-> <<>>,
                     limit |-> 50]
    /\ contentData = [primaryContentSections |-> Absent, topicSections |-> Absent]
    /\ indexData = [interfaceLanguages |-> Absent]

InitSamplesIdle ==
    /\ IdleSampleData
    /\ samplePc = "idle"
    /\ sampleCodes = <<>>
    /\ uniqueCodes = <<>>
    /\ sampleResults = <<>>
    /\ totalFound = 0
    /\ sampleOutcome = NoOutcome

InitSamples ==
    /\ sampleArgs \in SampleArgs
    /\ contentData \in ContentDatas
    /\ indexData \in IndexDatas
    /\ samplePc = "awaitFetches"
    /\ sampleCodes = <<>>
    /\ uniqueCodes = <<>>
    /\ sampleResults = <<>>
    /\ totalFound = 0
    /\ sampleOutcome = NoOutcome

InitDeduplicate ==
    /\ IdleSampleData
    /\ samplePc = "parsed"
    /\ sampleCodes \in DrawnCodes
    /\ uniqueCodes = <<>>
    /\ sampleResults = <<>>
    /\ totalFound = 0
    /\ sampleOutcome = NoOutcome

InitArrange ==
    /\ sampleArgs \in ArrangeArgs
    /\ contentData = [primaryContentSections |-> Absent, topicSections |-> Absent]
    /\ indexData = [interfaceLanguages |-> Absent]
    /\ samplePc = "deduplicated"
    /\ sampleCodes = <<>>
    /\ uniqueCodes \in ArrangeLists
    /\ sampleResults = <<>>
    /\ totalFound = 0
    /\ sampleOutcome = NoOutcome

NextSamples == ProduceSamples

NextArrange == ArrangeSamples

NextDeduplicate == DeduplicateCodes

-----------------------------------------------------------------------------
(* Framework names: normalizeFramework (lib/frameworks) on its own          *)

MaxPad == 2

\* The letter c in upper case.
UpperOf(c) ==
    IF \E k \in 1..26 : Letters[k] = c
    THEN Uppers[CHOOSE k \in 1..26 : Letters[k] = c]
    ELSE c

\* A lower-case name in every mix of upper and lower case.
RECURSIVE CaseVariants(_)
CaseVariants(s) ==
    IF s = <<>> THEN {<<>>}
    ELSE LET rest == CaseVariants(Tail(s))
         IN {<<Head(s)>> \o t : t \in rest} \cup {<<UpperOf(Head(s))>> \o t : t \in rest}

Spaces(n) == [i \in 1..n |-> " "]

\* The names drawn: the known slugs in every letter case, the canonical
\* names, names the table does not know, each between 0 to MaxPad spaces
\* on either side.
NameCores ==
    CaseVariants(StrSwiftui) \cup CaseVariants(StrUikit) \cup CaseVariants(StrCoreml)
        \cup {StrCoreML}
        \cup UNION {[1..n -> {"a", "B", " ", "1"}] : n \in 0..3}
        \cup {<<"f", "o", "o", "b", "a", "r">>, <<"f", "o", "o", "B", "a", "r">>,
              <<"s", "w", "i", "f", "t">>, <<"c", "o", "r", "e", " ", "m", "l">>}

FrameworkNames ==
    {Spaces(l) \o c \o Spaces(r) : l \in 0..MaxPad, r \in 0..MaxPad, c \in NameCores}

NormFrame == UNCHANGED <<programVars, urlVars, searchVars, updatesVars, techVars>>

\* normalizeFramework(name), and normalizeFramework of what it returned.
Normalize ==
    /\ ~nfDone
    /\ nfOutput' = normalizeFramework(nfInput)
    /\ nfAgain' = normalizeFramework(normalizeFramework(nfInput))
    /\ nfDone' = TRUE
    /\ UNCHANGED nfInput
    /\ NormFrame

InitNormIdle ==
    /\ nfInput = <<>>
    /\ nfOutput = <<>>
    /\ nfAgain = <<>>
    /\ nfDone = TRUE

InitNorm ==
    /\ nfInput \in FrameworkNames
    /\ nfOutput = <<>>
    /\ nfAgain = <<>>
    /\ nfDone = FALSE

NextNorm == Normalize

-----------------------------------------------------------------------------
(* URLs: lib/urls (src/unnamed/part_004)                                    *)
(*                                                                         *)
(* From here on a text is a sequence of fragments: a URL is its scheme, its *)
(* host, the slashes and the segments of its path; a message is its fixed   *)
(* wording and the texts inserted into it. The substrings the code searches *)
(* for ('developer.apple.com', '.json', '/documentation/', '/tutorials/',   *)
(* 'http') are whole fragments, so includes() is Includes on fragments.     *)

Scheme == "https://"
HostApple == "developer.apple.com"
HostOther == "evil.example"
Slash == "/"
DotJson == ".json"
SegDocumentation == "documentation"
SegTutorials == "tutorials"
SegData == "data"

\* null, and the empty string: both fail `if (!x)`.
Null == <<>>

\* APPLE_URLS.BASE (line 2)
Base == <<Scheme, HostApple>>

\* webUrl.endsWith('/') ? webUrl.slice(0, -1) : webUrl
Cleaned(webUrl) ==
    IF webUrl # <<>> /\ webUrl[Len(webUrl)] = Slash
    THEN SubSeq(webUrl, 1, Len(webUrl) - 1)
    ELSE webUrl

\* new URL(u): it throws unless u has a scheme and a host; hostname is what
\* stands between the scheme and the first slash, pathname the rest.
ParseUrl(u) ==
    LET slashes == {i \in 2..Len(u) : u[i] = Slash}
        first == IF slashes = {} THEN Len(u) + 1
                 ELSE CHOOSE i \in slashes : \A j \in slashes : i <= j
    IN IF Len(u) >= 2 /\ u[1] = Scheme /\ first > 2
       THEN [ok |-> TRUE,
             hostname |-> SubSeq(u, 2, first - 1),
             pathname |-> IF slashes = {} THEN <<Slash>> ELSE SubSeq(u, first, Len(u))]
       ELSE [ok |-> FALSE, hostname |-> <<>>, pathname |-> <<>>]

\* s.replace(sub, ''): the first occurrence removed.
RemoveFirst(s, sub) ==
    LET at == {i \in 1..(Len(s) - Len(sub) + 1) : SubSeq(s, i, i + Len(sub) - 1) = sub}
    IN IF at = {} THEN s
       ELSE LET i == CHOOSE k \in at : \A j \in at : k <= j
            IN SubSeq(s, 1, i - 1) \o SubSeq(s, i + Len(sub), Len(s))

\* The conversion without the test of the hostname.
convertAnyHost(webUrl) ==
    LET urlObj == ParseUrl(Cleaned(webUrl))
        path == urlObj.pathname
        documentation == <<Slash, SegDocumentation, Slash>>
        tutorials == <<Slash, SegTutorials, Slash>>
    IN IF ~urlObj.ok THEN Null
       ELSE IF Includes(path, documentation)
       THEN Base \o <<Slash, SegTutorials, Slash, SegData, Slash, SegDocumentation, Slash>>
                 \o RemoveFirst(path, documentation) \o <<DotJson>>
       ELSE IF Includes(path, tutorials)
       THEN Base \o <<Slash, SegTutorials, Slash, SegData, Slash>>
                 \o RemoveFirst(path, tutorials) \o <<DotJson>>
       ELSE webUrl

\* convertToJsonApiUrl, lines 18-41.
convertToJsonApiUrl(webUrl) ==
    LET urlObj == ParseUrl(Cleaned(webUrl))
        path == urlObj.pathname
        documentation == <<Slash, SegDocumentation, Slash>>
        tutorials == <<Slash, SegTutorials, Slash>>
    IN IF ~urlObj.ok THEN Null
       ELSE IF urlObj.hostname # <<HostApple>> THEN Null
       ELSE IF Includes(path, documentation)
       THEN Base \o <<Slash, SegTutorials, Slash, SegData, Slash, SegDocumentation, Slash>>
                 \o RemoveFirst(path, documentation) \o <<DotJson>>
       ELSE IF Includes(path, tutorials)
       THEN Base \o <<Slash, SegTutorials, Slash, SegData, Slash>>
                 \o RemoveFirst(path, tutorials) \o <<DotJson>>
       ELSE webUrl

\* The URLs handed to convertToJsonApiUrl: what stands before the path (a
\* scheme and a host, a host without a scheme, nothing, or another host
\* with the Apple host as its first path segment) and a path of at most
\* MaxPath fragments.
MaxPath == 5

UrlHeads ==
    {<<Scheme, HostApple>>, <<Scheme, HostOther>>, <<HostApple>>, <<>>,
     <<Scheme, HostOther, Slash, HostApple>>}

PathFragments == {Slash, SegDocumentation, SegTutorials, "a"}

UrlPaths == UNION {[1..n -> PathFragments] : n \in 0..MaxPath}

\* 'https:///x' is parsed by new URL with x as its host: no URL drawn
\* begins that way.
WebUrls ==
    UNION {{h \o q : q \in {r \in UrlPaths : h = <<>> => (r = <<>> \/ r[1] # Slash)}} :
              h \in UrlHeads}

UrlFrame == UNCHANGED <<programVars, searchVars, normVars, updatesVars, techVars>>

\* convertToJsonApiUrl(webUrl)
Convert ==
    /\ ~urlDone
    /\ jsonUrl' = convertToJsonApiUrl(argWebUrl)
    /\ urlDone' = TRUE
    /\ UNCHANGED argWebUrl
    /\ UrlFrame

InitUrlIdle ==
    /\ argWebUrl = <<>>
    /\ jsonUrl = Null
    /\ urlDone = TRUE

InitUrl ==
    /\ argWebUrl \in WebUrls
    /\ jsonUrl = Null
    /\ urlDone = FALSE

NextUrl == Convert

-----------------------------------------------------------------------------
(* Search results: parseResult and the loop of searchAppleDocs             *)
(* (commands/search, src/unnamed/part_003)                                  *)
(*                                                                         *)
(* An element of the page is what the code reads of it: the tokens of its   *)
(* class attribute and the href of the link in its title. The texts         *)
(* extracted by cheerio for the title, the description, the languages and   *)
(* the framework do not bear on which records are returned and are left     *)
(* out of the record.                                                       *)

MaxResults == 2

ClsSearchResult == "search-result"
TypeDocumentation == "documentation"
TypeSampleCodeResult == "sample_code"
TypeGeneral == "general"
TypeOther == "other"

FilterAll == "all"
FilterDocumentation == "documentation"
FilterSample == "sample"

\* TYPE_MAPPING (lines 17-21); a filterType that is no key of it gives
\* undefined, which `??` replaces by the entry of 'all'.
TypeMapping(filterType) ==
    CASE filterType = FilterAll -> <<TypeDocumentation, TypeSampleCodeResult>>
      [] filterType = FilterDocumentation -> <<TypeDocumentation>>
      [] filterType = FilterSample -> <<TypeSampleCodeResult>>
      [] OTHER -> <<TypeDocumentation, TypeSampleCodeResult>>

\* UNSUPPORTED_TYPES (line 23)
UnsupportedTypes == <<"general", "video", "forums", "news">>

\* array.includes(x)
Has(array, x) == \E i \in 1..Len(array) : array[i] = x

\* extractResultType (lines 30-38): the first class that is neither empty
\* nor 'search-result'.
extractResultType(element) ==
    LET classes == element.classes
        found == {i \in 1..Len(classes) : classes[i] # "" /\ classes[i] # ClsSearchResult}
    IN IF found = {} THEN TypeOther
       ELSE classes[CHOOSE i \in found : \A j \in found : i <= j]

StrDownloadHost == "download.apple.com"
DotZip == ".zip"
SegDesign == "design"
SegGuidelines == "human-interface-guidelines"

\* No record.
NoRecord == [found |-> FALSE, url |-> <<>>, type |-> ""]

\* The absolute URL of the link (lines 53-54): '' without a link, the base
\* put before an href that begins with '/'.
AbsoluteUrl(href) ==
    IF href # <<>> /\ href[1] = Slash THEN Base \o href ELSE href

\* parseResult without the test of the result type.
parseResultAnyType(element, filterType) ==
    LET resultType == extractResultType(element)
        u == AbsoluteUrl(element.href)
    IN IF \/ u = <<>>
          \/ ~Includes(u, <<Slash, SegDocumentation, Slash>>)
          \/ Includes(u, <<StrDownloadHost>>)
          \/ Includes(u, <<DotZip>>)
          \/ Includes(u, <<Slash, SegDesign, Slash, SegGuidelines, Slash>>)
       THEN NoRecord
       ELSE [found |-> TRUE, url |-> u, type |-> resultType]

\* parseResult (lines 40-94).
parseResult(element, filterType) ==
    LET resultType == extractResultType(element)
        allowed == TypeMapping(filterType)
        u == AbsoluteUrl(element.href)
    IN IF ~Has(allowed, resultType) \/ Has(UnsupportedTypes, resultType)
       THEN NoRecord
       ELSE IF \/ u = <<>>
               \/ ~Includes(u, <<Slash, SegDocumentation, Slash>>)
               \/ Includes(u, <<StrDownloadHost>>)
               \/ Includes(u, <<DotZip>>)
               \/ Includes(u, <<Slash, SegDesign, Slash, SegGuidelines, Slash>>)
       THEN NoRecord
       ELSE [found |-> TRUE, url |-> u, type |-> resultType]

\* The callback of $('.search-result').each (lines 108-113), element after
\* element: returning false ends the iteration.
RECURSIVE EachResult(_, _, _, _)
EachResult(page, filterType, lim, results) ==
    IF page = <<>> THEN results
    ELSE IF Len(results) >= lim THEN results
    ELSE LET result == parseResult(Head(page), filterType)
         IN EachResult(Tail(page), filterType, lim,
                       IF result.found THEN Append(results, result) ELSE results)

\* The elements drawn: every element selected has the class search-result.
ClassLists ==
    {<<ClsSearchResult, TypeDocumentation>>, <<ClsSearchResult, TypeSampleCodeResult>>,
     <<ClsSearchResult, TypeGeneral>>, <<ClsSearchResult>>,
     <<"", TypeDocumentation, ClsSearchResult>>}

Hrefs ==
    {<<>>,
     <<Slash, SegDocumentation, Slash, "a">>,
     <<Scheme, HostApple, Slash, SegDocumentation, Slash, "b">>,
     <<Slash, SegDesign, Slash, SegGuidelines, Slash, "a">>,
     <<Slash, SegDesign, Slash, SegGuidelines, Slash, SegDocumentation, Slash, "a">>,
     <<Slash, SegDocumentation, Slash, "a", DotZip>>,
     <<Scheme, StrDownloadHost, Slash, SegDocumentation, Slash, "a">>}

\* Every class list with a link that passes, and every link under the
\* classes of a documentation result.
Elements ==
    [classes : ClassLists, href : {<<Slash, SegDocumentation, Slash, "a">>}]
        \cup [classes : {<<ClsSearchResult, TypeDocumentation>>}, href : Hrefs]

Pages == UNION {[1..n -> Elements] : n \in 0..MaxResults}

FilterTypes == {FilterAll, FilterDocumentation, FilterSample, TypeGeneral}

SearchFrame == UNCHANGED <<programVars, urlVars, normVars, updatesVars, techVars>>

\* The loop of searchAppleDocs over the elements of the page fetched.
SearchPage ==
    /\ ~sDone
    /\ sResults' = EachResult(sPage, sFilter, sLimit, <<>>)
    /\ sDone' = TRUE
    /\ UNCHANGED <<sPage, sFilter, sLimit>>
    /\ SearchFrame

InitSearchIdle ==
    /\ sPage = <<>>
    /\ sFilter = FilterAll
    /\ sLimit = 0
    /\ sResults = <<>>
    /\ sDone = TRUE

InitSearch ==
    /\ sPage \in Pages
    /\ sFilter \in FilterTypes
    /\ sLimit \in 0..MaxResults
    /\ sResults = <<>>
    /\ sDone = FALSE

NextSearch == SearchPage

-----------------------------------------------------------------------------
(* Documentation updates: commands/updates.ts                               *)
(*                                                                         *)
(* Texts are sequences of characters here, as in the sample code section.   *)

MaxUpdateTops == 1
MaxUpdateLimit == 2

StrWwdc == <<"w", "w", "d", "c">>
StrWWDC == <<"W", "W", "D", "C">>
StrReleaseNotes == <<"r", "e", "l", "e", "a", "s", "e", " ", "n", "o", "t", "e", "s">>
StrTechnology == <<"t", "e", "c", "h", "n", "o", "l", "o", "g", "y">>
StrUpdatesPath ==
    <<"/", "d", "o", "c", "u", "m", "e", "n", "t", "a", "t", "i", "o", "n", "/", "u",
      "p", "d", "a", "t", "e", "s", "/">>

CatAll == "all"
CatWwdc == "wwdc"
CatReleaseNotes == "release-notes"
CatTechnology == "technology"
CatOther == "other"

\* getSectionCategory, lines 56-62.
getSectionCategory(title) ==
    LET lower == ToLowerCase(title)
    IN IF Includes(lower, StrWwdc) THEN CatWwdc
       ELSE IF Includes(lower, StrReleaseNotes) THEN CatReleaseNotes
       ELSE IF Includes(lower, StrTechnology) THEN CatTechnology
       ELSE CatOther

\* The words of a segment: '-' made a space, then the first character of
\* the text and every character after a space in upper case (lines 67-71).
TitleCaseWords(segment) ==
    LET spaced == [i \in 1..Len(segment) |-> IF segment[i] = "-" THEN " " ELSE segment[i]]
    IN [i \in 1..Len(spaced) |->
           IF i = 1 \/ spaced[i - 1] = " " THEN UpperOf(spaced[i]) ELSE spaced[i]]

\* extractTechFromPath, lines 64-74: the segment after the first
\* /documentation/updates/ (in any letter case) that a character other
\* than '/' follows, in title case; Absent without one.
extractTechFromPath(path) ==
    LET n == Len(StrUpdatesPath)
        at == {i \in 1..(Len(path) - n) :
                  /\ ToLowerCase(SubSeq(path, i, i + n - 1)) = StrUpdatesPath
                  /\ path[i + n] # "/"}
    IN IF at = {} THEN Absent
       ELSE LET i == CHOOSE k \in at : \A j \in at : k <= j
                stops == {j \in (i + n)..Len(path) : path[j] = "/"}
                last == IF stops = {} THEN Len(path)
                        ELSE (CHOOSE j \in stops : \A k \in stops : j <= k) - 1
            IN Some(TitleCaseWords(SubSeq(path, i + n, last)))

IsDigit(c) == \E k \in 1..10 : DigitChars[k] = c

\* title.match(/WWDC(\d{2,4})/) and lines 99-102: the year of the first
\* WWDC that two digits follow, '20' put before a year of two digits.
YearOf(title) ==
    LET at == {i \in 1..(Len(title) - 5) :
                  /\ SubSeq(title, i, i + 3) = StrWWDC
                  /\ IsDigit(title[i + 4])
                  /\ IsDigit(title[i + 5])}
    IN IF at = {} THEN Absent
       ELSE LET i == CHOOSE k \in at : \A j \in at : k <= j
                more == {m \in 2..4 : /\ i + 3 + m <= Len(title)
                                      /\ \A k \in 1..m : IsDigit(title[i + 3 + k])}
                len == CHOOSE m \in more : \A k \in more : k <= m
                digits == SubSeq(title, i + 4, i + 3 + len)
            IN Some(IF len = 2 THEN <<"2", "0">> \o digits ELSE digits)

\* The item of lines 88-96 and 98-103 for the reference ref of id.
UpdateItem(id, ref, category) ==
    [title |-> ref.title,
     url |-> IF ref.url.defined /\ ref.url.value # <<>>
             THEN StrAppleOrigin \o ref.url.value ELSE <<>>,
     description |-> IF ref.abstract.defined THEN ref.abstract.value ELSE <<>>,
     category |-> category,
     identifier |-> id,
     year |-> IF category = CatWwdc /\ ref.title # <<>> THEN YearOf(ref.title) ELSE Absent,
     beta |-> BetaAbsent,
     technology |-> Absent]

\* The references of data, a sequence of [id, ref]: the entry of id.
RefOf(references, id) ==
    LET at == {i \in 1..Len(references) : references[i].id = id}
    IN IF at = {} THEN Absent ELSE Some(references[CHOOSE i \in at : TRUE].ref)

\* The inner loop of lines 85-106 over the identifiers of one section.
RECURSIVE ItemsOfSection(_, _, _, _)
ItemsOfSection(ids, references, category, updates) ==
    IF ids = <<>> THEN updates
    ELSE LET ref == RefOf(references, Head(ids))
         IN ItemsOfSection(Tail(ids), references, category,
                           IF ref.defined
                           THEN Append(updates, UpdateItem(Head(ids), ref.value, category))
                           ELSE updates)

\* The loop of lines 82-107 over the topic sections. A section without
\* identifiers cannot be iterated, and data without references cannot be
\* indexed: a TypeError leaves the loop.
RECURSIVE ItemsOfSections(_, _, _)
ItemsOfSections(sections, references, updates) ==
    IF sections = <<>> THEN [threw |-> FALSE, message |-> "", value |-> updates]
    ELSE IF ~Head(sections).identifiers.defined
    THEN [threw |-> TRUE, message |-> NotIterable, value |-> <<>>]
    ELSE IF Head(sections).identifiers.value # <<>> /\ ~references.defined
    THEN [threw |-> TRUE, message |-> NotAnObject, value |-> <<>>]
    ELSE ItemsOfSections(Tail(sections), references,
             ItemsOfSection(Head(sections).identifiers.value,
                            OrEmpty(references),
                            getSectionCategory(Head(sections).title), updates))

\* section.beta ?? false
BetaOrFalse(beta) == IF beta = BetaAbsent THEN BetaFalse ELSE beta

\* processIndex, lines 119-130: for each section, in pre-order, the first
\* update whose url includes the section's path or whose title is the
\* section's gets the section's beta flag and technology.
RECURSIVE processIndex(_, _)
processIndex(sections, updates) ==
    IF sections = <<>> THEN updates
    ELSE LET section == Head(sections)
             found == {i \in 1..Len(updates) :
                          \/ Includes(updates[i].url, section.path)
                          \/ updates[i].title = section.title}
             enriched ==
                 IF found = {} THEN updates
                 ELSE [updates EXCEPT ![CHOOSE i \in found : \A j \in found : i <= j] =
                          [@ EXCEPT !.beta = BetaOrFalse(section.beta),
                                    !.technology = extractTechFromPath(section.path)]]
             below == IF section.children.defined
                      THEN processIndex(section.children.value, enriched)
                      ELSE enriched
         IN processIndex(Tail(sections), below)

\* parseUpdates, lines 76-117.
parseUpdates(data, indexJson) ==
    LET items == ItemsOfSections(OrEmpty(data.topicSections), data.references, <<>>)
    IN IF items.threw THEN items
       ELSE IF indexJson.interfaceLanguages.defined /\ indexJson.interfaceLanguages.value.swift.defined
       THEN [threw |-> FALSE, message |-> "",
             value |-> processIndex(indexJson.interfaceLanguages.value.swift.value, items.value)]
       ELSE items

\* Lines 160-186: the filters, in the order of the code.
FilterCategory(updates, category) ==
    IF category # CatAll THEN SelectSeq(updates, LAMBDA u : u.category = category)
    ELSE updates

FilterTechnology(updates, technology) ==
    IF technology = <<>> THEN updates
    ELSE LET techLower == ToLowerCase(technology)
         IN SelectSeq(updates,
                LAMBDA u :
                    \/ u.technology.defined
                          /\ Includes(ToLowerCase(u.technology.value), techLower)
                    \/ Includes(ToLowerCase(u.title), techLower)
                    \/ Includes(ToLowerCase(u.description), techLower))

FilterYear(updates, year) ==
    IF year = <<>> THEN updates
    ELSE SelectSeq(updates, LAMBDA u : u.year.defined /\ u.year.value = year)

FilterQuery(updates, searchQuery) ==
    IF searchQuery = <<>> THEN updates
    ELSE LET q == ToLowerCase(searchQuery)
         IN SelectSeq(updates,
                LAMBDA u : \/ Includes(ToLowerCase(u.title), q)
                           \/ Includes(ToLowerCase(u.description), q))

FilterIncludeBeta(updates, includeBeta) ==
    IF ~includeBeta THEN SelectSeq(updates, LAMBDA u : u.beta # BetaTrue)
    ELSE updates

\* No truncation at all.
SliceNothing(updates, lim) == updates

\* Lines 187-189: if (limit > 0) updates = updates.slice(0, limit)
SliceUpdates(updates, lim) == IF lim > 0 THEN Slice(updates, lim) ELSE updates


PathSwift == StrUpdatesPath \o <<"s", "w", "i", "f", "t">>
PathSwiftUI == PathSwift \o <<"u", "i">>
PathMaps == StrUpdatesPath \o <<"m", "a", "p", "s">>
StrWWDC24 == StrWWDC \o <<"2", "4">>
Str2024 == <<"2", "0", "2", "4">>
IdOne == "doc://1"
IdTwo == "doc://2"
IdThree == "doc://3"

Reference(title, u) == [title |-> title, url |-> u, abstract |-> Absent]

IndexNode(path, title, beta, children) ==
    [path |-> path, title |-> title, beta |-> beta, children |-> children]

\* Upstream documents drawn for the parse: two references whose paths are
\* absent, one the beginning of the other, or equal; a section that lists
\* them in either order or names a reference that does not exist; parts
\* of the documents absent.
ParseDatas ==
    [topicSections :
        {Absent}
        \cup {Some(<<[title |-> StrTechnology, identifiers |-> ids]>>) :
                ids \in {Absent, Some(<<IdOne, IdTwo>>), Some(<<IdTwo, IdOne>>),
                         Some(<<IdOne, IdThree>>)}},
     references :
        {Absent}
        \cup {Some(<<[id |-> IdOne, ref |-> Reference(<<"a">>, u1)],
                     [id |-> IdTwo, ref |-> Reference(<<"b">>, u2)]>>) :
                u1, u2 \in {Absent, Some(PathSwift), Some(PathSwiftUI)}}]

UpdateLeaves ==
    {IndexNode(p, t, b, Absent) :
        p \in {PathSwift, PathSwiftUI}, t \in {<<"a">>, <<"x">>}, b \in {BetaAbsent, BetaTrue}}

UpdateTops ==
    UpdateLeaves
    \cup {IndexNode(n.path, n.title, n.beta, Some(<<c>>)) :
            n \in UpdateLeaves, c \in {l \in UpdateLeaves : l.beta = BetaTrue}}

ParseIndexes ==
    {[interfaceLanguages |-> Absent], [interfaceLanguages |-> Some([swift |-> Absent])]}
    \cup {[interfaceLanguages |-> Some([swift |-> Some(l)])] :
            l \in UNION {[1..n -> UpdateTops] : n \in 0..MaxUpdateTops}}

\* The defaults of getDocumentationUpdates (lines 133-138).
DefaultUpdateArgs ==
    [category |-> CatAll, technology |-> <<>>, year |-> <<>>, searchQuery |-> <<>>,
     includeBeta |-> TRUE, limit |-> 50]

\* Upstream documents drawn for the filters: two updates of unrelated
\* paths, of one category or of two, of a WWDC year or not, beta or not.
FilterDatas ==
    {[topicSections |->
         Some(<<[title |-> StrWWDC, identifiers |-> Some(<<IdOne>>)],
                [title |-> s2, identifiers |-> Some(<<IdTwo>>)]>>),
      references |->
         Some(<<[id |-> IdOne, ref |-> Reference(t1, Some(PathSwift))],
                [id |-> IdTwo, ref |-> Reference(t2, Some(PathMaps))]>>)] :
        s2 \in {StrWWDC, StrTechnology}, t1, t2 \in {StrWWDC24, <<"a">>}}

FilterIndexes ==
    {[interfaceLanguages |->
         Some([swift |-> Some(<<IndexNode(PathSwift, <<"x">>, b1, Absent),
                                 IndexNode(PathMaps, <<"y">>, b2, Absent)>>)])] :
        b1, b2 \in {BetaAbsent, BetaTrue}}

\* The arguments drawn with them; the CLI admits limits from 1 to 200.
FilterArgs ==
    [category : {CatAll, CatWwdc},
     technology : {<<>>, <<"S", "w", "i", "f", "t">>},
     year : {<<>>, Str2024},
     searchQuery : {<<>>, <<"A">>},
     includeBeta : BOOLEAN,
     limit : 1..MaxUpdateLimit]

UpdatesFrame == UNCHANGED <<programVars, urlVars, searchVars, normVars, techVars>>

\* The continuation of the producer of getDocumentationUpdates once both
\* fetches have resolved (lines 158-191): it returns the updates to
\* format, or an exception leaves it and the catch of line 195 makes it an
\* error string.
ProduceUpdates ==
    /\ updatePc = "awaitFetches"
    /\ LET parsed == parseUpdates(updatesData, updatesIndex)
           filtered ==
               FilterIncludeBeta(
                   FilterQuery(
                       FilterYear(
                           FilterTechnology(FilterCategory(parsed.value, updateArgs.category),
                                            updateArgs.technology),
                           updateArgs.year),
                       updateArgs.searchQuery),
                   updateArgs.includeBeta)
       IN IF parsed.threw
          THEN /\ updateOutcome' = [kind |-> "error", message |-> parsed.message]
               /\ UNCHANGED <<parsedUpdates, updateResults>>
          ELSE /\ parsedUpdates' = parsed.value
               /\ updateResults' = SliceUpdates(filtered, updateArgs.limit)
               /\ updateOutcome' = [kind |-> "ok", message |-> ""]
    /\ updatePc' = "done"
    /\ UNCHANGED <<updateArgs, updatesData, updatesIndex>>
    /\ UpdatesFrame

InitUpdatesIdle ==
    /\ updateArgs = DefaultUpdateArgs
    /\ updatesData = [topicSections |-> Absent, references |-> Absent]
    /\ updatesIndex = [interfaceLanguages |-> Absent]
    /\ updatePc = "idle"
    /\ parsedUpdates = <<>>
    /\ updateResults = <<>>
    /\ updateOutcome = NoOutcome

InitUpdates ==
    /\ updateArgs = DefaultUpdateArgs
    /\ updatesData \in ParseDatas
    /\ updatesIndex \in ParseIndexes
    /\ updatePc = "awaitFetches"
    /\ parsedUpdates = <<>>
    /\ updateResults = <<>>
    /\ updateOutcome = NoOutcome

InitUpdateFilters ==
    /\ updateArgs \in FilterArgs
    /\ updatesData \in FilterDatas
    /\ updatesIndex \in FilterIndexes
    /\ updatePc = "awaitFetches"
    /\ parsedUpdates = <<>>
    /\ updateResults = <<>>
    /\ updateOutcome = NoOutcome

NextUpdates == ProduceUpdates

-----------------------------------------------------------------------------
(* Technologies: applyFilters (commands/technologies.ts)                    *)
(*                                                                         *)
(* The name of a group is a sequence of characters; tags and languages are  *)
(* array elements, compared whole.                                          *)

MaxTechs == 2

TagBeta == "Beta"
LangSwift == "swift"
LangOcc == "occ"

\* The filter of lines 116-121 on one technology.
KeepsTech(tech, filters) ==
    IF ~filters.includeBeta /\ Has(tech.tags, TagBeta) THEN FALSE
    ELSE IF filters.language # "" /\ ~Has(tech.languages, filters.language) THEN FALSE
    ELSE TRUE

\* The callback of the first map (lines 108-124): <<>> stands for null.
FilterGroup(group, filters) ==
    IF /\ filters.category # <<>>
       /\ ~Includes(ToLowerCase(group.name), ToLowerCase(filters.category))
    THEN <<>>
    ELSE LET techs == SelectSeq(group.technologies, LAMBDA tech : KeepsTech(tech, filters))
         IN IF Len(techs) > 0
            THEN <<[name |-> group.name, technologies |-> techs]>>
            ELSE <<>>

\* Lines 107-125: the groups mapped, the nulls filtered out.
RECURSIVE FilterGroups(_, _)
FilterGroups(groups, filters) ==
    IF groups = <<>> THEN <<>>
    ELSE FilterGroup(Head(groups), filters) \o FilterGroups(Tail(groups), filters)

\* Lines 130-141: the second map with its running total, and its filter.
RECURSIVE LimitGroups(_, _, _)
LimitGroups(groups, lim, total) ==
    IF groups = <<>> THEN <<>>
    ELSE LET available == lim - total
         IN IF available <= 0
            THEN LimitGroups(Tail(groups), lim, total)
            ELSE LET limited == Slice(Head(groups).technologies, available)
                 IN (IF Len(limited) > 0
                     THEN <<[name |-> Head(groups).name, technologies |-> limited]>>
                     ELSE <<>>)
                    \o LimitGroups(Tail(groups), lim, total + Len(limited))

\* applyFilters with a limit that cuts every group on its own.
applyFiltersPerGroup(groups, filters) ==
    LET filtered == FilterGroups(groups, filters)
    IN [k \in 1..Len(filtered) |->
           [name |-> filtered[k].name,
            technologies |-> Slice(filtered[k].technologies, filters.limit)]]

\* applyFilters, lines 98-144.
applyFilters(groups, filters) ==
    LET filtered == FilterGroups(groups, filters)
    IN IF filters.limit >= 0
       THEN IF filters.limit = 0 THEN <<>>
            ELSE LimitGroups(filtered, filters.limit, 0)
       ELSE filtered

StrApp == <<"A", "p", "p">>
StrGames == <<"G", "a", "m", "e", "s">>

\* The groups drawn: two groups, each of 0 to MaxTechs technologies that
\* are of Swift, of Swift and in beta, or of Objective-C; a technology is
\* named by its group and its place.
TechKinds ==
    {[tags |-> <<>>, languages |-> <<LangSwift, LangOcc>>],
     [tags |-> <<"Games", TagBeta>>, languages |-> <<LangSwift>>],
     [tags |-> <<>>, languages |-> <<LangOcc>>]}

TechsOf(g, kinds) ==
    [i \in 1..Len(kinds) |->
        [identifier |-> <<g, i>>, tags |-> kinds[i].tags, languages |-> kinds[i].languages]]

KindLists == UNION {[1..n -> TechKinds] : n \in 0..MaxTechs}

TechGroupLists ==
    {<<[name |-> StrApp, technologies |-> TechsOf(1, k1)],
       [name |-> StrGames, technologies |-> TechsOf(2, k2)]>> : k1, k2 \in KindLists}

\* The filters drawn; '' and <<>> stand for an undefined language and
\* category; the CLI admits limits from 0 to 500.
TechFilters ==
    [category : {<<>>, <<"a", "P", "P">>},
     language : {"", LangSwift},
     includeBeta : BOOLEAN,
     limit : 0..(MaxTechs + 1)]

TechFrame == UNCHANGED <<programVars, urlVars, searchVars, normVars, updatesVars>>

\* applyFilters(groups, filters)
ApplyFilters ==
    /\ ~techDone
    /\ techResult' = applyFilters(techGroups, techFilters)
    /\ techDone' = TRUE
    /\ UNCHANGED <<techGroups, techFilters>>
    /\ TechFrame

InitTechIdle ==
    /\ techGroups = <<>>
    /\ techFilters = [category |-> <<>>, language |-> "", includeBeta |-> TRUE,
                      limit |-> 200]
    /\ techResult = <<>>
    /\ techDone = TRUE

InitTech ==
    /\ techGroups \in TechGroupLists
    /\ techFilters \in TechFilters
    /\ techResult = <<>>
    /\ techDone = FALSE

NextTech == ApplyFilters

-----------------------------------------------------------------------------
(* The six feature functions: searchAppleDocs (src/unnamed/part_003),       *)
(* getAppleDocContent (commands/doc.ts), listTechnologies,                  *)
(* searchFrameworkSymbols (src/unnamed/part_002), getDocumentationUpdates   *)
(* and getSampleCode                                                        *)

MaxInvocations == 2

ModSearch == "search"
ModDoc == "doc"
ModTechnologies == "technologies"
ModSymbols == "symbols"
ModUpdates == "updates"
ModSamples == "samples"

Modules == {ModSearch, ModDoc, ModTechnologies, ModSymbols, ModUpdates, ModSamples}

\* The modules that go through cacheGetOrSet.
ProducerModules == {ModTechnologies, ModSymbols, ModUpdates, ModSamples}

\* The prefix each module gives makeCacheKey.
KeyPrefix(m) ==
    CASE m = ModDoc -> StrDoc
      [] m = ModTechnologies ->
            <<"t", "e", "c", "h", "n", "o", "l", "o", "g", "i", "e", "s">>
      [] m = ModSymbols -> <<"s", "y", "m", "b", "o", "l", "s">>
      [] m = ModUpdates -> <<"u", "p", "d", "a", "t", "e", "s">>
      [] m = ModSamples -> <<"s", "a", "m", "p", "l", "e", "s">>

\* CACHE_TTL of each module, in ms.
CacheTtl(m) ==
    CASE m = ModDoc -> 30 * 60 * 1000
      [] m = ModTechnologies -> 2 * 60 * 60 * 1000
      [] m = ModSymbols -> 60 * 60 * 1000
      [] m = ModUpdates -> 30 * 60 * 1000
      [] m = ModSamples -> 2 * 60 * 60 * 1000

\* The number of resources a module requests on a miss: one, or two in a
\* Promise.all.
Fetches(m) == IF m \in {ModUpdates, ModSamples} THEN 2 ELSE 1

\* The URLs a module other than doc requests, in the order of the calls.
Endpoints(m) ==
    CASE m = ModSearch -> <<Base \o <<Slash, "search", Slash, "?q=", "query">>>>
      [] m = ModTechnologies ->
            <<Base \o <<Slash, SegTutorials, Slash, SegData, Slash, SegDocumentation,
                        Slash, "technologies", DotJson>>>>
      [] m = ModSymbols ->
            <<Base \o <<Slash, SegTutorials, Slash, SegData, Slash, "index", Slash,
                        "swiftui">>>>
      [] m = ModUpdates ->
            <<Base \o <<Slash, SegTutorials, Slash, SegData, Slash, SegDocumentation,
                        Slash, "Updates", DotJson>>,
              Base \o <<Slash, SegTutorials, Slash, SegData, Slash, "index", Slash,
                        "updates">>>>
      [] m = ModSamples ->
            <<Base \o <<Slash, SegTutorials, Slash, SegData, Slash, SegDocumentation,
                        Slash, "SampleCode", DotJson>>,
              Base \o <<Slash, SegTutorials, Slash, SegData, Slash, "index", Slash,
                        "samplecode">>>>

\* The parameter objects of the modules other than doc and search, two
\* different queries; the options object of doc is empty.
FeatureArgs ==
    {<<>>,
     <<[name |-> StrLimit, value |-> [defined |-> TRUE, str |-> <<"5">>]]>>}

\* What the fetcher throws at its caller: the errors of fetchWithRetry
\* (http.ts lines 34, 38) and the SyntaxError of response.json() (line 64).
FetchFailures(u) ==
    {<<"Not found (404): ">> \o u,
     <<"Server error (", "503", "): ">> \o u,
     <<"JSON Parse error: Unrecognized token '<'">>}

\* The TypeError of a parser or a formatter on a document of another shape.
ShapeError == <<"undefined is not an object">>

\* The wording each catch puts before the message.
ErrorPrefix(m) ==
    CASE m = ModSearch -> <<"Error searching Apple docs: ">>
      [] m = ModDoc -> <<"Error: Failed to get Apple doc content: ">>
      [] m = ModTechnologies -> <<"Error: Failed to list technologies: ">>
      [] m = ModSymbols -> <<"Error searching symbols: ">>
      [] m = ModUpdates -> <<"Error: Failed to fetch documentation updates: ">>
      [] m = ModSamples -> <<"Error fetching sample code: ">>

\* The string a catch returns for the error `message`; in doc.ts with the
\* url argument of the call.
ErrorText(m, message, u) ==
    ErrorPrefix(m) \o message
    \o (IF m = ModDoc
        THEN <<"\n\nPlease try accessing the documentation directly at: ">> \o u
        ELSE <<>>)

Pending == [state |-> "pending", value |-> <<>>]

\* The promise of the feature function resolved with a string.
Resolved(text) == [state |-> "resolved", value |-> text]

\* A catch that throws the error on.
Rethrown(m, message, u) == [state |-> "rejected", value |-> message]

\* The catch of every feature function: the promise resolves with the
\* error string.
Caught(m, message, u) == Resolved(ErrorText(m, message, u))

NoFailure == [failed |-> FALSE, message |-> <<>>]

Failure(message) == [failed |-> TRUE, message |-> message]

\* cacheGet(key) finds a value: the key is present and not expired.
Hit(st, key, t) == key \in DOMAIN st /\ ~Expired(st[key], t)

\* The default of the parameter maxDepth (doc.ts line 27).
DefaultMaxDepth == 2

WebA == Base \o <<Slash, SegDocumentation, Slash, "a">>
WebB == Base \o <<Slash, SegDocumentation, Slash, "b">>

\* The url arguments drawn: documentation pages, with a trailing slash,
\* as a JSON API URL, on another host, without a scheme, and with the
\* Apple host name elsewhere than in the host.
DocUrls ==
    {WebA, WebB,
     WebA \o <<Slash>>,
     convertToJsonApiUrl(WebA),
     Base \o <<Slash, "videos">>,
     <<Scheme, HostOther, Slash, SegDocumentation, Slash, "a">>,
     <<HostApple, Slash, SegDocumentation, Slash, "a">>,
     <<Scheme, HostApple, ".", HostOther, Slash, SegDocumentation, Slash, "a">>,
     <<Scheme, HostOther, Slash, HostApple, Slash, "a", DotJson>>,
     <<HostApple, Slash, "a", DotJson>>}

\* The url of a reference: absent, relative, or absolute on another host.
RefUrls ==
    {<<>>,
     <<Slash, SegDocumentation, Slash, "a">>,
     <<Slash, SegDocumentation, Slash, "b">>,
     <<Scheme, HostOther, Slash, SegDocumentation, Slash, "a">>}

\* data.references, as Object.values lists it: absent, empty, one
\* reference, or the two pages in either order.
ReferenceMaps ==
    {Absent, Some(<<>>)}
    \cup {Some(<<[url |-> u]>>) : u \in RefUrls}
    \cup {Some(<<[url |-> <<Slash, SegDocumentation, Slash, "a">>],
                 [url |-> <<Slash, SegDocumentation, Slash, "b">>]>>),
          Some(<<[url |-> <<Slash, SegDocumentation, Slash, "b">>],
                 [url |-> <<Slash, SegDocumentation, Slash, "a">>]>>)}

\* The documents a doc fetch may resolve with: with primaryContentSections
\* or without, with any of the reference maps, of the shape the formatters
\* expect or of another.
DocPages ==
    [title : {"Title"}, primary : BOOLEAN, references : ReferenceMaps, wellShaped : BOOLEAN]

NoPage == [title |-> "", primary |-> FALSE, references |-> Absent, wellShaped |-> FALSE]

\* The documents a fetch of the other modules may resolve with.
Documents == {"d1", "d2"}

\* makeCacheKey('doc', { url: jsonApiUrl, ...options })
DocKey(jsonApiUrl, options) ==
    MakeCacheKey(StrDoc,
                 <<[name |-> <<"u", "r", "l">>,
                    value |-> [defined |-> TRUE, str |-> jsonApiUrl]]>> \o options)

\* Lines 62-89 of doc.ts: the content, ending with the link to `u`.
FormatDoc(page, u) ==
    <<"# ", page.title, "---\n\n[View full documentation on Apple Developer](">>
    \o u \o <<")">>

\* The string the other modules return for a document.
FormatResult(m, document) == <<"# ", m, document>>

\* The condition of lines 44-49 without the test of maxDepth.
FollowsAtAnyDepth(page, depth) ==
    /\ ~page.primary
    /\ page.references.defined
    /\ Len(page.references.value) > 0

\* The condition of lines 44-49.
Follows(page, depth) ==
    /\ ~page.primary
    /\ page.references.defined
    /\ Len(page.references.value) > 0
    /\ depth > 0

\* Lines 50-55: the JSON API URL of the first reference (Null when it has
\* no url or no convertible one).
RefJsonUrl(page) ==
    LET firstRef == page.references.value[1]
    IN IF firstRef.url = <<>> THEN Null
       ELSE convertToJsonApiUrl(IF firstRef.url[1] = Scheme
                                THEN firstRef.url
                                ELSE Base \o firstRef.url)

\* getAppleDocContent(u, options, depth) up to its first await (lines
\* 29-41): it returns at once, or it waits for fetchJson(json).
Enter(u, options, st, t) ==
    LET json == IF Includes(u, <<DotJson>>) THEN u ELSE convertToJsonApiUrl(u)
        key == DocKey(json, options)
    IN IF ~Includes(u, <<HostApple>>)
       THEN [pc |-> "done", json |-> Null, store |-> st,
             result |-> Resolved(<<"Error: URL must be from developer.apple.com">>)]
       ELSE IF json = Null
       THEN [pc |-> "done", json |-> Null, store |-> st,
             result |-> Resolved(<<"Error: Invalid Apple Developer Documentation URL">>)]
       ELSE IF Hit(st, key, t)
       THEN [pc |-> "done", json |-> json, store |-> st,
             result |-> Resolved(st[key].value)]
       ELSE [pc |-> "awaitFetch", json |-> json, store |-> CacheGetStore(st, key, t),
             result |-> Pending]

\* What no step of a feature function touches.
FeatureFrame ==
    UNCHANGED <<fetchVars, keyVars, matchVars, walkVars, samplesVars,
                now, ticks, gos, got, written, libVars>>

\* An invocation getAppleDocContent(fArgUrl, fArgs).
DocCall ==
    /\ fModule = ModDoc
    /\ fPc \in {"idle", "done"}
    /\ fInvocation < MaxInvocations
    /\ LET e == Enter(fArgUrl, fArgs, store, now)
       IN /\ fPc' = e.pc
          /\ fJson' = e.json
          /\ fResult' = e.result
          /\ store' = e.store
          /\ fRequests' = IF e.pc = "awaitFetch" THEN <<e.json>> ELSE <<>>
    /\ fUrl' = fArgUrl
    /\ fDepth' = DefaultMaxDepth
    /\ fInvocation' = fInvocation + 1
    /\ fFailure' = NoFailure
    /\ fPage' = NoPage
    /\ UNCHANGED <<fModule, fArgs, fArgUrl, fPending, fSettled>>
    /\ FeatureFrame

\* fetchJson(fJson) resolves with `page` (doc.ts lines 41-92): the call
\* returns a call of itself on the first reference, or formats the page,
\* stores the content and returns it; an exception of a formatter goes to
\* the catch.
DocFetchResolves(page) ==
    /\ fModule = ModDoc
    /\ fPc = "awaitFetch"
    /\ fPage' = page
    /\ IF Follows(page, fDepth) /\ RefJsonUrl(page) # Null
       THEN LET e == Enter(RefJsonUrl(page), fArgs, store, now)
            IN /\ fPc' = e.pc
               /\ fJson' = e.json
               /\ fResult' = e.result
               /\ store' = e.store
               /\ fRequests' = IF e.pc = "awaitFetch" THEN Append(fRequests, e.json)
                               ELSE fRequests
               /\ fUrl' = RefJsonUrl(page)
               /\ fDepth' = fDepth - 1
               /\ UNCHANGED fFailure
       ELSE IF ~page.wellShaped
       THEN /\ fResult' = Caught(ModDoc, ShapeError, fUrl)
            /\ fFailure' = Failure(ShapeError)
            /\ fPc' = "done"
            /\ UNCHANGED <<store, fJson, fRequests, fUrl, fDepth>>
       ELSE /\ fResult' = Resolved(FormatDoc(page, fUrl))
            /\ store' = CacheSetStore(store, DocKey(fJson, fArgs), FormatDoc(page, fUrl),
                                      CacheTtl(ModDoc), now)
            /\ fPc' = "done"
            /\ UNCHANGED <<fFailure, fJson, fRequests, fUrl, fDepth>>
    /\ UNCHANGED <<fModule, fArgs, fArgUrl, fPending, fSettled, fInvocation>>
    /\ FeatureFrame

\* fetchJson(fJson) rejects: the catch of line 93.
DocFetchRejects(message) ==
    /\ fModule = ModDoc
    /\ fPc = "awaitFetch"
    /\ fResult' = Caught(ModDoc, message, fUrl)
    /\ fFailure' = Failure(message)
    /\ fPc' = "done"
    /\ UNCHANGED <<fModule, fArgs, fArgUrl, fUrl, fJson, fDepth, fPending, fSettled, fPage,
                   fRequests, fInvocation, store>>
    /\ FeatureFrame

\* An invocation of one of the other five functions: search fetches at
\* once (part_003 lines 103-104); the others build their key and go
\* through cacheGetOrSet, which returns a cached value or calls the
\* producer, which starts its one or two fetches.
FeatureCall ==
    /\ fModule # ModDoc
    /\ fPc \in {"idle", "done"}
    /\ fInvocation < MaxInvocations
    /\ IF fModule \in ProducerModules
          /\ Hit(store, MakeCacheKey(KeyPrefix(fModule), fArgs), now)
       THEN /\ fResult' = Resolved(store[MakeCacheKey(KeyPrefix(fModule), fArgs)].value)
            /\ fPc' = "done"
            /\ fPending' = {}
            /\ fRequests' = <<>>
            /\ UNCHANGED store
       ELSE /\ fResult' = Pending
            /\ fPc' = "awaitFetch"
            /\ fPending' = 1..Fetches(fModule)
            /\ fRequests' = Endpoints(fModule)
            /\ store' = IF fModule \in ProducerModules
                        THEN CacheGetStore(store, MakeCacheKey(KeyPrefix(fModule), fArgs), now)
                        ELSE store
    /\ fSettled' = <<>>
    /\ fInvocation' = fInvocation + 1
    /\ fFailure' = NoFailure
    /\ UNCHANGED <<fModule, fArgs, fArgUrl, fUrl, fJson, fDepth, fPage>>
    /\ FeatureFrame

\* The Promise.all replaced by a race: the producer goes on with the first
\* fetch that resolves.
FeatureFetchResolvesFirst(i, document, wellShaped) ==
    /\ fModule # ModDoc
    /\ fPc = "awaitFetch"
    /\ i \in fPending
    /\ fPending' = fPending \ {i}
    /\ fSettled' = Append(fSettled, [fetch |-> i, ok |-> TRUE])
    /\ IF ~wellShaped
       THEN /\ fResult' = Caught(fModule, ShapeError, <<>>)
            /\ fFailure' = Failure(ShapeError)
            /\ fPc' = "done"
            /\ UNCHANGED store
       ELSE /\ fResult' = Resolved(FormatResult(fModule, document))
            /\ fPc' = "done"
            /\ store' = IF fModule \in ProducerModules
                        THEN CacheSetStore(store, MakeCacheKey(KeyPrefix(fModule), fArgs),
                                           FormatResult(fModule, document),
                                           CacheTtl(fModule), now)
                        ELSE store
            /\ UNCHANGED fFailure
    /\ UNCHANGED <<fModule, fArgs, fArgUrl, fUrl, fJson, fDepth, fPage, fRequests,
                   fInvocation>>
    /\ FeatureFrame

\* Fetch i of one of the other five functions resolves. While another
\* fetch of the Promise.all is pending nothing else happens; after the
\* last one the document is parsed and formatted, and cacheGetOrSet stores
\* and returns the string; an exception of the parser goes to the catch.
FeatureFetchResolves(i, document, wellShaped) ==
    /\ fModule # ModDoc
    /\ fPc = "awaitFetch"
    /\ i \in fPending
    /\ fPending' = fPending \ {i}
    /\ fSettled' = Append(fSettled, [fetch |-> i, ok |-> TRUE])
    /\ IF fPending # {i}
       THEN UNCHANGED <<fResult, fFailure, fPc, store>>
       ELSE IF ~wellShaped
       THEN /\ fResult' = Caught(fModule, ShapeError, <<>>)
            /\ fFailure' = Failure(ShapeError)
            /\ fPc' = "done"
            /\ UNCHANGED store
       ELSE /\ fResult' = Resolved(FormatResult(fModule, document))
            /\ fPc' = "done"
            /\ store' = IF fModule \in ProducerModules
                        THEN CacheSetStore(store, MakeCacheKey(KeyPrefix(fModule), fArgs),
                                           FormatResult(fModule, document),
                                           CacheTtl(fModule), now)
                        ELSE store
            /\ UNCHANGED fFailure
    /\ UNCHANGED <<fModule, fArgs, fArgUrl, fUrl, fJson, fDepth, fPage, fRequests,
                   fInvocation>>
    /\ FeatureFrame

\* A producer that catches the rejection itself: cacheGetOrSet would store
\* the error string it returns.
FeatureFetchRejectsInProducer(i, message) ==
    /\ fModule # ModDoc
    /\ fPc = "awaitFetch"
    /\ i \in fPending
    /\ fPending' = fPending \ {i}
    /\ fSettled' = Append(fSettled, [fetch |-> i, ok |-> FALSE])
    /\ fResult' = Caught(fModule, message, <<>>)
    /\ fFailure' = Failure(message)
    /\ fPc' = "done"
    /\ store' = IF fModule \in ProducerModules
                THEN CacheSetStore(store, MakeCacheKey(KeyPrefix(fModule), fArgs),
                                   ErrorText(fModule, message, <<>>),
                                   CacheTtl(fModule), now)
                ELSE store
    /\ UNCHANGED <<fModule, fArgs, fArgUrl, fUrl, fJson, fDepth, fPage, fRequests,
                   fInvocation>>
    /\ FeatureFrame

\* Fetch i of one of the other five functions rejects: the await (of the
\* Promise.all, of cacheGetOrSet) throws and the catch returns the string;
\* another fetch of the Promise.all stays in flight.
FeatureFetchRejects(i, message) ==
    /\ fModule # ModDoc
    /\ fPc = "awaitFetch"
    /\ i \in fPending
    /\ fPending' = fPending \ {i}
    /\ fSettled' = Append(fSettled, [fetch |-> i, ok |-> FALSE])
    /\ fResult' = Caught(fModule, message, <<>>)
    /\ fFailure' = Failure(message)
    /\ fPc' = "done"
    /\ UNCHANGED <<fModule, fArgs, fArgUrl, fUrl, fJson, fDepth, fPage, fRequests,
                   fInvocation, store>>
    /\ FeatureFrame

\* Fetch i settles after the Promise.all it belonged to was rejected:
\* nobody awaits it any more.
FeatureFetchSettlesLate(i, ok) ==
    /\ fModule # ModDoc
    /\ fPc = "done"
    /\ i \in fPending
    /\ fPending' = fPending \ {i}
    /\ fSettled' = Append(fSettled, [fetch |-> i, ok |-> ok])
    /\ UNCHANGED <<fModule, fArgs, fArgUrl, fUrl, fJson, fDepth, fPc, fPage, fRequests,
                   fFailure, fResult, fInvocation, store>>
    /\ FeatureFrame

FeatureAtRest ==
    /\ fUrl = <<>>
    /\ fJson = <<>>
    /\ fDepth = DefaultMaxDepth
    /\ fPc = "idle"
    /\ fPending = {}
    /\ fSettled = <<>>
    /\ fPage = NoPage
    /\ fRequests = <<>>
    /\ fFailure = NoFailure
    /\ fResult = Pending
    /\ fInvocation = 0

InitFeatureIdle ==
    /\ fModule = ModSearch
    /\ fArgs = <<>>
    /\ fArgUrl = <<>>
    /\ FeatureAtRest

\* One of the six functions, about to be invoked with drawn arguments.
InitFeature ==
    /\ fModule \in Modules
    /\ fArgs \in (IF fModule = ModDoc THEN {<<>>} ELSE FeatureArgs)
    /\ fArgUrl \in (IF fModule = ModDoc THEN DocUrls ELSE {<<>>})
    /\ FeatureAtRest

\* getAppleDocContent about to be invoked with a drawn url.
InitDoc ==
    /\ fModule = ModDoc
    /\ fArgs = <<>>
    /\ fArgUrl \in DocUrls
    /\ FeatureAtRest

\* The fetchJson a doc invocation waits for settles, one way or the other.
DocFetchSettles ==
    \/ \E page \in DocPages : DocFetchResolves(page)
    \/ \E message \in FetchFailures(fJson) : DocFetchRejects(message)

NextDoc == DocCall \/ DocFetchSettles

NextFeature ==
    \/ NextDoc
    \/ FeatureCall
    \/ \E i \in fPending, document \in Documents, wellShaped \in BOOLEAN :
          FeatureFetchResolves(i, document, wellShaped)
    \/ \E i \in fPending :
          \E message \in FetchFailures(fRequests[i]) : FeatureFetchRejects(i, message)
    \/ \E i \in fPending, ok \in BOOLEAN : FeatureFetchSettlesLate(i, ok)

-----------------------------------------------------------------------------
(* Specifications *)

\* Every part of the program at rest but the one a specification exercises.
InitLibIdle ==
    InitUrlIdle /\ InitSearchIdle /\ InitNormIdle /\ InitUpdatesIdle /\ InitTechIdle

InitRest ==
    InitMatchIdle /\ InitWalkIdle /\ InitSamplesIdle /\ InitFeatureIdle /\ InitLibIdle

Init == InitFetch /\ InitCache /\ InitKeyIdle /\ InitRest

\* The whole program: calls of the fetcher, of the cache and of the key
\* builder, interleaved.
Next ==
    NextFetch \/ NextCache \/ NextKey \/ NextMatch \/ NextWalk \/ NextSamples
    \/ NextDeduplicate \/ NextFeature \/ NextUrl \/ NextSearch
    \/ NextArrange \/ NextNorm \/ NextUpdates \/ NextTech

Spec == Init /\ [][Next]_vars

\* One fetchJson/fetchHtml call, the cache at rest.
SpecFetch == Init /\ [][NextFetch]_vars

\* Every awaited promise settles: fetch() is bounded by AbortSignal.timeout
\* (line 30) and the backoff by setTimeout (line 54).
FairSpecFetch == SpecFetch /\ WF_vars(NextFetch)

\* The cache under direct reads and writes, two cacheGetOrSet callers and the clock.
SpecCache == Init /\ [][NextCache]_vars

\* makeCacheKey applied to drawn inputs, the rest of the program at rest.
InitKeyCalls == InitFetch /\ InitCache /\ InitKey /\ InitRest

SpecKey == InitKeyCalls /\ [][NextKey]_vars

\* makeCacheKey applied to objects whose values may hold ',' and '='.
InitKeySeparatorCalls == InitFetch /\ InitCache /\ InitKeySeparators /\ InitRest

SpecKeySeparators == InitKeySeparatorCalls /\ [][NextKey]_vars

\* matchesPattern applied to drawn names and patterns.
InitMatchCalls ==
    /\ InitFetch /\ InitCache /\ InitKeyIdle /\ InitMatch /\ InitWalkIdle
    /\ InitSamplesIdle /\ InitFeatureIdle /\ InitLibIdle

SpecMatch == InitMatchCalls /\ [][NextMatch]_vars

\* findSymbolsRecursive applied to drawn indexes and arguments.
InitWalkCalls ==
    /\ InitFetch /\ InitCache /\ InitKeyIdle /\ InitMatchIdle /\ InitWalk
    /\ InitSamplesIdle /\ InitFeatureIdle /\ InitLibIdle

SpecWalk == InitWalkCalls /\ [][NextWalk]_vars

\* The core of the program at rest: the fetcher, the cache, the key
\* builder, the pattern matcher, the symbols walk and the library
\* functions.
InitCore ==
    InitFetch /\ InitCache /\ InitKeyIdle /\ InitMatchIdle /\ InitWalkIdle /\ InitLibIdle

\* The producer of getSampleCode on drawn upstream documents.
InitSamplesCalls == InitCore /\ InitSamples /\ InitFeatureIdle

SpecSamples == InitSamplesCalls /\ [][NextSamples]_vars

\* The deduplication on drawn lists of parsed records.
InitDeduplicateCalls == InitCore /\ InitDeduplicate /\ InitFeatureIdle

SpecDeduplicate == InitDeduplicateCalls /\ [][NextDeduplicate]_vars

\* The filters, the sort and the truncation of getSampleCode on drawn
\* lists of deduplicated records.
InitArrangeCalls == InitCore /\ InitArrange /\ InitFeatureIdle

SpecArrange == InitArrangeCalls /\ [][NextArrange]_vars

\* The filters and the truncation of both producers that have them: of
\* getSampleCode on drawn lists of deduplicated records, or of
\* getDocumentationUpdates on drawn upstream documents.
InitFilterCalls ==
    /\ InitFetch /\ InitCache /\ InitKeyIdle /\ InitMatchIdle /\ InitWalkIdle
    /\ InitFeatureIdle /\ InitUrlIdle /\ InitSearchIdle /\ InitNormIdle /\ InitTechIdle
    /\ \/ InitArrange /\ InitUpdatesIdle
       \/ InitSamplesIdle /\ InitUpdateFilters

SpecFilters == InitFilterCalls /\ [][NextArrange \/ NextUpdates]_vars

\* The six feature functions, each invoked up to MaxInvocations times with
\* the same arguments, every fetch free to resolve or to reject.
InitFeatureCalls == InitCore /\ InitSamplesIdle /\ InitFeature

SpecFeature == InitFeatureCalls /\ [][NextFeature]_vars

\* getAppleDocContent alone.
InitDocCalls == InitCore /\ InitSamplesIdle /\ InitDoc

SpecDoc == InitDocCalls /\ [][NextDoc]_vars

\* Every fetchJson settles (http.ts: three attempts at most, each under a
\* 30 s timeout).
FairSpecDoc == SpecDoc /\ WF_vars(DocFetchSettles)

\* The whole program at rest.
InitProgramIdle ==
    /\ InitFetch /\ InitCache /\ InitKeyIdle /\ InitMatchIdle /\ InitWalkIdle
    /\ InitSamplesIdle /\ InitFeatureIdle

\* convertToJsonApiUrl applied to drawn URLs.
InitUrlCalls ==
    /\ InitProgramIdle /\ InitUrl /\ InitSearchIdle /\ InitNormIdle /\ InitUpdatesIdle
    /\ InitTechIdle

SpecUrl == InitUrlCalls /\ [][NextUrl]_vars

\* The loop of searchAppleDocs applied to drawn pages.
InitSearchCalls ==
    /\ InitProgramIdle /\ InitUrlIdle /\ InitSearch /\ InitNormIdle /\ InitUpdatesIdle
    /\ InitTechIdle

SpecSearch == InitSearchCalls /\ [][NextSearch]_vars

\* normalizeFramework applied to drawn names.
InitNormCalls ==
    /\ InitProgramIdle /\ InitUrlIdle /\ InitSearchIdle /\ InitNorm /\ InitUpdatesIdle
    /\ InitTechIdle

SpecNorm == InitNormCalls /\ [][NextNorm]_vars

\* The producer of getDocumentationUpdates on drawn upstream documents.
InitUpdatesCalls ==
    /\ InitProgramIdle /\ InitUrlIdle /\ InitSearchIdle /\ InitNormIdle /\ InitUpdates
    /\ InitTechIdle

SpecUpdates == InitUpdatesCalls /\ [][NextUpdates]_vars

\* applyFilters applied to drawn groups and filters.
InitTechCalls ==
    /\ InitProgramIdle /\ InitUrlIdle /\ InitSearchIdle /\ InitNormIdle /\ InitUpdatesIdle
    /\ InitTech

SpecTech == InitTechCalls /\ [][NextTech]_vars

-----------------------------------------------------------------------------
(* Properties of the fetcher *)

\* fetchWithRetry has settled: it returned a response or threw.
Finished == pc \in {"awaitBody", "done"}

Rejected == pc = "done" /\ outcome.state = "rejected"

\* An attempt's observation that the policy retries: a transport error (0),
\* a status >= 500 or any other non-2xx status except 404.
Retryable(h) == h # 404 /\ ~Ok(h)

\* C1: a response with status 404, on whichever attempt, ends the call at
\* once with a failure: it is the last attempt made, no fetch() follows it
\* and no backoff delay is waited after it (a first response of 404 fails
\* after exactly one attempt).
C1_NotFoundFailsImmediately ==
    \A i \in 1..Len(history) :
        history[i] = 404 =>
            /\ Len(history) = i
            /\ nCalls = i
            /\ Len(waits) = i - 1
            /\ Rejected
            /\ outcome.error = NotFoundMessage(url)

C1_Witness == Len(history) = 2 /\ history[2] = 404 /\ Rejected

\* C2: for every URL, a failed attempt that is not a 404 (status >= 500,
\* other non-2xx status, transport error) and is not the third is followed
\* by another attempt: the next fetch() was issued or its backoff is being
\* waited; and 500, 500, 200 succeeds after exactly 3 attempts.
C2_RetryableFailureIsRetried ==
    /\ \A i \in 1..Len(history) :
          (Retryable(history[i]) /\ i < 3) => (nCalls > i \/ pc = "awaitDelay")
    /\ history = <<500, 500, 200>> => (nCalls = 3 /\ response # NoResponse /\ ~Rejected)

\* C3: every call makes at least 1 and at most 3 attempts and then
\* finishes, returning a 2xx response or failing; under the fairness of
\* FairSpecFetch it does finish.
C3_AtMostThreeAttemptsAndTermination ==
    /\ [](nCalls <= 3)
    /\ [](Finished =>
            /\ nCalls \in 1..3
            /\ \/ (response # NoResponse /\ Ok(response.status))
               \/ Rejected)
    /\ <>Finished

C3_Witness == nCalls = 3 /\ Rejected /\ Len(history) = 3

\* C4: when all 3 attempts fail, the surfaced error is the error of the
\* third attempt and its message contains the URL, whatever the kind of
\* failure.
C4_LastErrorTaggedWithUrl ==
    (Rejected /\ Len(errors) = 3) =>
        /\ outcome.error = errors[3]
        /\ Includes(outcome.error, url)

\* C5: the backoff waited after the first failed attempt is 1000 ms and
\* after the second 2000 ms; a wait only ever separates two attempts, so
\* none follows the third failure and none precedes a surfaced 404.
C5_BackoffSchedule ==
    /\ waits = SubSeq(<<1000, 2000>>, 1, Len(waits))
    /\ pc = "awaitDelay" => Len(waits) = nCalls
    /\ (pc # "awaitDelay" /\ nCalls >= 1) => Len(waits) = nCalls - 1

C5_Witness == waits = <<1000, 2000>> /\ Rejected /\ nCalls = 3

\* C6: fetchJson resolves with the fully parsed body of a 2xx response or
\* rejects; a body that is not well-formed JSON rejects the call, and no
\* attempt is started after the response was received.
C6_JsonParseFailurePropagates ==
    (kind = "json" /\ pc = "done") =>
        /\ \/ outcome.state = "rejected"
           \/ /\ outcome.state = "resolved"
              /\ response # NoResponse /\ Ok(response.status) /\ response.body.wellFormed
              /\ outcome.value = <<"parsed", response.body.text>>
        /\ (response # NoResponse /\ ~response.body.wellFormed) =>
              /\ outcome.state = "rejected"
              /\ nCalls = Len(history)
              /\ history[Len(history)] = response.status

C6_Witness ==
    /\ kind = "json" /\ pc = "done"
    /\ response # NoResponse /\ ~response.body.wellFormed
    /\ nCalls = 3

-----------------------------------------------------------------------------
(* Properties of the cache *)

NoGot == [key |-> "none", value |-> Undefined]

\* The step is the first part of p's cacheGetOrSet call (up to its await or return).
CallStep(p) == gos[p].pc = "idle" /\ gos'[p].pc # "idle"

\* The step is the resolution of p's producer.
ResolveStep(p) ==
    gos[p].pc = "awaitFn" /\ gos'[p].pc = "done" /\ gos'[p].state = "resolved"

\* What a direct cacheGet(key) that has just returned must have returned,
\* by the history of the sets: the value of the latest set while
\* now <= (time of that set) + ttl, absent afterwards, the entry then gone.
C7_ReadInv ==
    got # NoGot =>
        LET k == got.key
        IN  /\ IF Live(k)
               THEN /\ got.value = written[k].value
                    /\ k \in DOMAIN store
                    /\ store[k].expiresAt = written[k].at + written[k].ttl
               ELSE /\ got.value = Undefined
                    /\ k \notin DOMAIN store
            /\ (written[k] # NotWritten /\ written[k].ttl = 1 /\ now >= written[k].at + 10)
                  => got.value = Undefined
            /\ (written[k] # NotWritten /\ written[k].ttl = 60000 /\ now = written[k].at)
                  => got.value = written[k].value

\* An entry leaves the store only in a read of its key made after it expired.
C7_RemovalStep ==
    \A k \in Keys :
        (k \in DOMAIN store /\ k \notin DOMAIN store') =>
            /\ now > store[k].expiresAt
            /\ \/ got' # NoGot /\ got'.key = k
               \/ \E p \in Callers : CallStep(p) /\ gos'[p].key = k

\* C7: cacheGet(key) returns the stored value as long as now <= expiresAt
\* (time of the set + ttl); the first read after that returns absent and
\* removes the entry, and nothing else removes an entry. A value set with
\* ttl 1 is absent 10 ms later, one set with ttl 60000 is read back at once.
C7_GetHonoursExpiry == []C7_ReadInv /\ [][C7_RemovalStep]_vars

C7_Witness ==
    /\ got # NoGot
    /\ written[got.key] # NotWritten
    /\ written[got.key].ttl = 1
    /\ now = written[got.key].at + 10
    /\ got.value = Undefined
    /\ got.key \notin DOMAIN store

\* A call's first part: a live entry is returned and no producer invoked,
\* otherwise the producer is invoked.
C8_CallStep ==
    \A p \in Callers :
        CallStep(p) =>
            LET k == gos'[p].key
            IN  IF Live(k)
                THEN /\ gos'[p].pc = "done" /\ gos'[p].state = "resolved"
                     /\ gos'[p].ret = written[k].value
                     /\ gos'[p].calls = 0
                     /\ store' = store
                ELSE /\ gos'[p].pc = "awaitFn"
                     /\ gos'[p].calls = 1
                     /\ k \notin DOMAIN store'

\* The producer's value is stored under the key with the call's ttl and returned.
C8_ResolveStep ==
    \A p \in Callers :
        ResolveStep(p) =>
            /\ gos'[p].calls = 1
            /\ gos'[p].ret = gos'[p].produced
            /\ gos'[p].ret \in Values
            /\ gos[p].key \in DOMAIN store'
            /\ store'[gos[p].key] = [value |-> gos'[p].produced, expiresAt |-> now + gos[p].ttl]

\* C8: cacheGetOrSet returns a non-expired entry's value without invoking
\* the producer; with no entry or an expired one it invokes the producer
\* exactly once, stores the value under the key with the ttl, and returns it.
C8_GetOrSetHitOrProduceOnce ==
    /\ [](\A p \in Callers : gos[p].calls <= 1)
    /\ [][C8_CallStep /\ C8_ResolveStep]_vars

\* One caller was served from the cache, the other produced after the entry expired.
C8_Witness ==
    \E p, q \in Callers :
        /\ gos[p].pc = "done" /\ gos[p].state = "resolved" /\ gos[p].calls = 0
        /\ gos[q].pc = "done" /\ gos[q].state = "resolved" /\ gos[q].calls = 1
        /\ gos[q].key = gos[p].key
        /\ now = 10
        /\ gos[q].key \in DOMAIN store /\ store[gos[q].key].value = gos[q].ret
        /\ gos[p].ret # gos[q].ret

\* A call made while another caller's producer for the same key is in
\* flight (and no set of the key has intervened) invokes its own producer
\* and leaves the other call as it is.
C10_OverlapStep ==
    \A q \in Callers :
        (/\ CallStep(q)
         /\ ~Live(gos'[q].key)
         /\ \E p \in Callers \ {q} : gos[p].pc = "awaitFn" /\ gos[p].key = gos'[q].key)
        => /\ gos'[q].pc = "awaitFn" /\ gos'[q].calls = 1
           /\ \A p \in Callers \ {q} : gos'[p] = gos[p]

\* A producer that finishes overwrites whatever entry the key holds then,
\* an entry written by the other producer included, and its caller gets
\* its own value; the other keys keep their entries.
C10_FinishStep ==
    \A p \in Callers :
        ResolveStep(p) =>
            /\ gos'[p].ret = gos'[p].produced
            /\ store'[gos[p].key].value = gos'[p].produced
            /\ store'[gos[p].key].expiresAt = now + gos[p].ttl
            /\ \A k \in DOMAIN store \ {gos[p].key} : k \in DOMAIN store' /\ store'[k] = store[k]
            /\ \A q \in Callers \ {p} : gos'[q] = gos[q]

\* C10: overlapping cacheGetOrSet calls for one key are not deduplicated:
\* every call in flight has invoked its own producer, each caller receives
\* its own producer's value, and each finishing producer overwrites the
\* entry, so the entry left is that of the producer that finishes last.
C10_NoSingleFlightLastWriterWins ==
    /\ [](\A p \in Callers : gos[p].pc = "awaitFn" => gos[p].calls = 1)
    /\ [][C10_OverlapStep /\ C10_FinishStep]_vars

\* Both callers produced for the same key with no time passed, so neither
\* saw the other's entry: the calls overlapped; the entry is one of the two.
C10_Witness ==
    /\ ticks = 0
    /\ \A p \in Callers : gos[p].pc = "done" /\ gos[p].state = "resolved" /\ gos[p].calls = 1
    /\ gos["A"].key = gos["B"].key
    /\ gos["A"].ret # gos["B"].ret
    /\ store[gos["A"].key].value = gos["B"].ret

-----------------------------------------------------------------------------
(* Properties of makeCacheKey *)

\* The effective query of an object: its parameters with a defined value.
Effective(entries) ==
    {<<entries[i].name, entries[i].value.str>> :
        i \in {j \in 1..Len(entries) : entries[j].value # UndefinedParam}}

KeySwiftDoc ==
    StrSearch \o <<":">> \o StrQuery \o <<"=">> \o StrSwift \o <<",">> \o StrType \o <<"=">> \o StrDoc

\* C9: makeCacheKey gives the same key for every insertion order of the
\* same parameters and leaves out every parameter whose value is undefined:
\* two objects with the same defined parameters give the same key, a
\* defined parameter appears in the key as name=value and an undefined one
\* does not appear; {query:'swift', type:'doc'} gives
\* 'search:query=swift,type=doc' in both orders.
C9_KeyIgnoresOrderAndUndefined ==
    /\ (keyOut[1] # None /\ keyOut[2] # None /\ Effective(params[1]) = Effective(params[2]))
          => keyOut[1] = keyOut[2]
    /\ \A i \in 1..2 :
          keyOut[i] # None =>
              /\ \A j \in 1..Len(params[i]) :
                    IF params[i][j].value = UndefinedParam
                    THEN ~Includes(keyOut[i], params[i][j].name \o <<"=">>)
                    ELSE Includes(keyOut[i], Part(params[i][j]))
              /\ (prefix = StrSearch
                    /\ Effective(params[i]) = {<<StrQuery, StrSwift>>, <<StrType, StrDoc>>})
                    => keyOut[i] = KeySwiftDoc

\* The same two parameters in opposite insertion orders, both keys computed.
C9_Witness ==
    /\ prefix = StrSearch
    /\ params[1] = <<[name |-> StrQuery, value |-> [defined |-> TRUE, str |-> StrSwift]],
                     [name |-> StrType, value |-> [defined |-> TRUE, str |-> StrDoc]]>>
    /\ params[2] = <<[name |-> StrType, value |-> [defined |-> TRUE, str |-> StrDoc]],
                     [name |-> StrQuery, value |-> [defined |-> TRUE, str |-> StrSwift]]>>
    /\ keyOut[1] = KeySwiftDoc
    /\ keyOut[2] = KeySwiftDoc

-----------------------------------------------------------------------------
(* Properties of the symbols walk and of matchesPattern *)

\* The nodes of a forest in depth-first pre-order, each with the recursion
\* depth of the list that holds it.
RECURSIVE PreOrder(_, _)
PreOrder(its, depth) ==
    IF its = <<>>
    THEN <<>>
    ELSE <<[item |-> Head(its), depth |-> depth]>>
         \o PreOrder(Head(its).children, depth + 1)
         \o PreOrder(Tail(its), depth)

\* The matching nodes an exhaustive walk of the lists at depth 0..6 collects.
AllMatches ==
    SelectSeq(PreOrder(index, 0),
              LAMBDA n : n.depth <= MaxWalkDepth /\ Selected(n.item, symbolType, namePattern))

Take(s, n) == SubSeq(s, 1, IF n < Len(s) THEN n ELSE Len(s))

\* C11: the walk returns, in depth-first pre-order, exactly the first `limit`
\* matching nodes within the depth bound: what collecting every match and
\* truncating would give; `symbols` never holds more than `limit` nodes.
C11_FirstLimitMatchesInPreOrder ==
    walked =>
        /\ Len(symbols) <= limit
        /\ symbols = [i \in 1..Len(Take(AllMatches, limit)) |-> AllMatches[i].item]

\* A walk that stopped early: more nodes match than the limit admits, and
\* the nodes returned come from more than one level.
C11_Witness ==
    /\ walked
    /\ index # <<>>
    /\ Len(AllMatches) > limit
    /\ Len(symbols) = limit
    /\ \E i, j \in 1..Len(AllMatches) : i <= limit /\ j <= limit
                                        /\ AllMatches[i].depth # AllMatches[j].depth

\* The recursion depth of the list that holds the node named `p`.
DepthOf(p) ==
    LET all == PreOrder(index, 0)
    IN (CHOOSE n \in {all[i] : i \in 1..Len(all)} : n.item.path = p).depth

\* The chain of ten nodes whose only class is at level k.
ChainOfTen(k) ==
    ItemsOf([i \in 1..10 |-> [depth |-> i - 1,
                              type |-> IF i = k THEN TypeClass ELSE Filler.type,
                              title |-> IF i = k THEN StrView ELSE Filler.title]],
            1, 10, 0)

\* C12: no node reported lies in a list at recursion depth above 6; on a
\* tree nested ten levels deep whose only match is at level 8 the walk
\* returns nothing.
C12_NothingBeyondDepthSix ==
    walked =>
        /\ \A i \in 1..Len(symbols) : DepthOf(symbols[i].path) <= MaxWalkDepth
        /\ (symbolType = TypeClass /\ index \in {ChainOfTen(8), ChainOfTen(9)})
              => symbols = <<>>

\* The tree of the example, walked for classes: level 8 is the list at
\* recursion depth 7.
C12_Witness ==
    /\ walked
    /\ index = ChainOfTen(8)
    /\ symbolType = TypeClass
    /\ namePattern = <<>>
    /\ symbols = <<>>

\* Two characters are the same letter, whatever their case.
SameLetter(a, b) ==
    \/ a = b
    \/ {a, b} = {"v", "V"}
    \/ {a, b} = {"n", "N"}

\* Wildcard matching stated on the pattern itself: '*' takes any run of
\* characters, every other character takes itself.
RECURSIVE Glob(_, _)
Glob(p, s) ==
    IF p = <<>>
    THEN s = <<>>
    ELSE IF Head(p) = "*"
    THEN \E k \in 0..Len(s) : Glob(Tail(p), SubSeq(s, k + 1, Len(s)))
    ELSE s # <<>> /\ SameLetter(Head(p), Head(s)) /\ Glob(Tail(p), Tail(s))

\* C13: matchesPattern reads '*' as any run of characters, the empty run
\* included, and every other character literally; the match covers the whole
\* name and ignores case: '*View' matches 'NavigationView' and 'View' and
\* does not match 'Viewer'.
C13_WildcardAnchoredCaseInsensitive ==
    mDone =>
        /\ mResult = Glob(mPattern, mName)
        /\ (mPattern = StrStarView /\ mName \in {StrNavigationView, StrView}) => mResult
        /\ (mPattern = StrStarView /\ mName = StrViewer) => ~mResult

\* The three names of the example and a pattern whose '.' must stay literal.
C13_Witness ==
    /\ mDone
    /\ \/ mPattern = StrStarView /\ mName = StrViewer /\ ~mResult
       \/ mPattern = StrStarView /\ mName = StrNavigationView /\ mResult
       \/ mPattern = <<".", "*">> /\ mName = <<".", "V">> /\ mResult

\* C15 (the symbols walk): no node of type 'groupMarker' is among the
\* symbols returned, whatever the symbolType.
C15_NoGroupMarkerAmongSymbols ==
    walked => \A i \in 1..Len(symbols) : symbols[i].type # TypeGroupMarker

-----------------------------------------------------------------------------
(* Properties of the sample code module *)

\* The parsed records that share the path p.
Duplicates(p) == {sampleCodes[k] : k \in {k \in 1..Len(sampleCodes) : sampleCodes[k].path = p}}

\* C14: after deduplication every path appears exactly once; the entry kept
\* is featured if any duplicate is, beta if any duplicate is, has the least
\* depth of the duplicates and a framework whenever a duplicate has one.
C14_DeduplicateMergesByPath ==
    samplePc = "deduplicated" =>
        /\ \A i, j \in 1..Len(uniqueCodes) :
               uniqueCodes[i].path = uniqueCodes[j].path => i = j
        /\ {uniqueCodes[i].path : i \in 1..Len(uniqueCodes)}
              = {sampleCodes[k].path : k \in 1..Len(sampleCodes)}
        /\ \A i \in 1..Len(uniqueCodes) :
               LET u == uniqueCodes[i]
                   dups == Duplicates(u.path)
               IN /\ u.featured <=> \E c \in dups : c.featured
                  /\ u.beta <=> \E c \in dups : c.beta
                  /\ \A c \in dups : u.depth <= c.depth
                  /\ \E c \in dups : u.depth = c.depth
                  /\ (\E c \in dups : c.framework # <<>>) => u.framework # <<>>
                  /\ u.framework # <<>> => \E c \in dups : c.framework = u.framework

\* Two records of one path that differ in every merged field, folded into one.
C14_Witness ==
    /\ samplePc = "deduplicated"
    /\ Len(sampleCodes) = 2
    /\ Len(uniqueCodes) = 1
    /\ sampleCodes[1].featured /\ ~sampleCodes[2].featured
    /\ ~sampleCodes[1].beta /\ sampleCodes[2].beta
    /\ sampleCodes[1].framework = <<>> /\ sampleCodes[2].framework # <<>>
    /\ sampleCodes[2].depth < sampleCodes[1].depth
    /\ uniqueCodes[1].featured /\ uniqueCodes[1].beta

\* C19 (samples): whatever field the two upstream documents lack, the
\* command returns results and no error.
C19_MissingFieldNeverFailsTheCommand ==
    samplePc = "done" => sampleOutcome.kind = "ok"

-----------------------------------------------------------------------------
(* Properties of the feature functions *)

\* C16: the promise of a feature function never rejects and is resolved
\* when the invocation is over; after a failure of a fetch, of the JSON
\* parse or of the walk of the data, the string returned contains the text
\* of the error and, for doc, the URL to try by hand.
C16_FailuresBecomeStrings ==
    /\ fResult.state # "rejected"
    /\ fPc = "done" =>
          /\ fResult.state = "resolved"
          /\ fFailure.failed =>
                /\ Includes(fResult.value, fFailure.message)
                /\ fModule = ModDoc => Includes(fResult.value, fUrl)

\* A doc invocation that failed after a redirect, and a producer whose
\* parser threw.
C16_Witness ==
    /\ fPc = "done"
    /\ fFailure.failed
    /\ \/ fModule = ModDoc /\ Len(fRequests) = 2
       \/ fModule = ModSamples /\ fFailure.message = ShapeError

\* A step of a doc invocation that follows a reference.
Hop == fModule = ModDoc /\ fPc = "awaitFetch" /\ fUrl' # fUrl

\* C17 (as amended): a doc invocation follows a reference only from a page
\* without primaryContentSections and with at least one reference, and
\* then to the first reference; it follows at most 2 of them, so it
\* fetches at most 3 pages, and the page received after the second hop is
\* the one it formats; a reference to a page already fetched is followed
\* like any other; every invocation ends.
C17_RedirectsAreBoundedNotDeduplicated ==
    /\ [](Len(fRequests) <= DefaultMaxDepth + 1 /\ fDepth >= 0)
    /\ [][Hop => /\ ~fPage'.primary
                 /\ fPage'.references.defined
                 /\ Len(fPage'.references.value) >= 1
                 /\ fUrl' = RefJsonUrl(fPage')
                 /\ fDepth' = fDepth - 1]_vars
    /\ [][(fModule = ModDoc /\ fPc = "awaitFetch" /\ fDepth = 0) => fPc' = "done"]_vars
    /\ (fPc = "awaitFetch") ~> (fPc = "done")

\* Page a sends to page b, which sends back to a: a is fetched again,
\* and then formatted.
C17_Witness ==
    /\ fModule = ModDoc
    /\ fPc = "done"
    /\ Len(fRequests) = 3
    /\ fRequests[3] = fRequests[1]
    /\ fRequests[2] # fRequests[1]
    /\ ~fFailure.failed

\* C17 (as stated): an invocation never fetches a page it has already
\* visited: it formats the page it holds instead.
C17_NeverFollowsToVisitedPage ==
    \A i, j \in 1..Len(fRequests) : fRequests[i] = fRequests[j] => i = j

\* C18: every URL getAppleDocContent hands to fetchJson is well-formed and
\* has the host developer.apple.com.
C18_OnlyAppleHostIsFetched ==
    fModule = ModDoc =>
        \A i \in 1..Len(fRequests) :
            /\ ParseUrl(fRequests[i]).ok
            /\ ParseUrl(fRequests[i]).hostname = <<HostApple>>

\* An invocation over, with content returned and no failure met.
Succeeded ==
    /\ fPc = "done"
    /\ fInvocation >= 1
    /\ ~fFailure.failed
    /\ fRequests # <<>>

\* C20: after a successful invocation, the next invocation with the same
\* arguments (nothing expires meanwhile) returns the same string and
\* requests nothing.
C20_SecondInvocationIsServedFromCache ==
    [][(Succeeded /\ fInvocation' = fInvocation + 1)
          => (fRequests' = <<>> /\ fResult' = fResult)]_vars

-----------------------------------------------------------------------------
(* Properties of the URL conversion *)

\* u is a URL of developer.apple.com: the scheme, the host, and then
\* nothing or a path.
OnAppleHost(u) ==
    /\ Len(u) >= 2
    /\ u[1] = Scheme
    /\ u[2] = HostApple
    /\ Len(u) >= 3 => u[3] = Slash

\* What follows the host, without one trailing slash.
PathOf(u) ==
    LET q == SubSeq(u, 3, Len(u))
    IN IF q # <<>> /\ q[Len(q)] = Slash THEN SubSeq(q, 1, Len(q) - 1) ELSE q

\* The places of q where /seg/ stands.
SegAt(q, seg) ==
    {i \in 1..(Len(q) - 2) : q[i] = Slash /\ q[i + 1] = seg /\ q[i + 2] = Slash}

\* q without its first /seg/.
WithoutSeg(q, seg) ==
    LET i == CHOOSE k \in SegAt(q, seg) : \A j \in SegAt(q, seg) : k <= j
    IN SubSeq(q, 1, i - 1) \o SubSeq(q, i + 3, Len(q))

DataRoot == <<Scheme, HostApple, Slash, SegTutorials, Slash, SegData, Slash>>

\* C25: convertToJsonApiUrl returns null for what is not a URL and for
\* every host but developer.apple.com; on that host, one trailing slash
\* dropped, a path holding /documentation/ becomes
\* /tutorials/data/documentation/<rest>.json, otherwise a path holding
\* /tutorials/ becomes /tutorials/data/<rest>.json, and any other URL is
\* returned as it was given; what is returned, unless null, is on
\* developer.apple.com.
C25_ConversionToJsonApiUrl ==
    urlDone =>
        /\ ~OnAppleHost(argWebUrl) => jsonUrl = Null
        /\ OnAppleHost(argWebUrl) =>
              LET q == PathOf(argWebUrl)
              IN jsonUrl =
                   IF SegAt(q, SegDocumentation) # {}
                   THEN DataRoot \o <<SegDocumentation, Slash>>
                            \o WithoutSeg(q, SegDocumentation) \o <<DotJson>>
                   ELSE IF SegAt(q, SegTutorials) # {}
                   THEN DataRoot \o WithoutSeg(q, SegTutorials) \o <<DotJson>>
                   ELSE argWebUrl
        /\ jsonUrl # Null => OnAppleHost(jsonUrl)

\* .../documentation/a/ has been converted, its trailing slash dropped.
C25_Witness ==
    /\ urlDone
    /\ argWebUrl = <<Scheme, HostApple, Slash, SegDocumentation, Slash, "a", Slash>>
    /\ jsonUrl = DataRoot \o <<SegDocumentation, Slash, "a", DotJson>>

-----------------------------------------------------------------------------
(* Properties of the search results *)

\* The result types a filter lets through, as documented.
AllowedBy(filterType) ==
    CASE filterType = FilterDocumentation -> {TypeDocumentation}
      [] filterType = FilterSample -> {TypeSampleCodeResult}
      [] filterType = FilterAll -> {TypeDocumentation, TypeSampleCodeResult}
      [] OTHER -> {TypeDocumentation, TypeSampleCodeResult}

\* A URL of a documentation page: it holds /documentation/ and is no
\* download, no archive and no page of the design guidelines.
DocumentationUrl(u) ==
    /\ \E i \in 1..(Len(u) - 2) :
          u[i] = Slash /\ u[i + 1] = SegDocumentation /\ u[i + 2] = Slash
    /\ \A i \in 1..Len(u) : u[i] \notin {StrDownloadHost, DotZip, SegGuidelines}

\* The places of the page whose element passes the filter.
Passing ==
    {i \in 1..Len(sPage) :
        /\ extractResultType(sPage[i]) \in AllowedBy(sFilter)
        /\ DocumentationUrl(AbsoluteUrl(sPage[i].href))}

\* C21: the records returned have a type the filter allows and a URL of a
\* documentation page; they are at most `limit`, and they are the records
\* of the first elements of the page that pass, in page order.
C21_OnlyAllowedDocumentationResults ==
    sDone =>
        /\ \A k \in 1..Len(sResults) :
              /\ sResults[k].type \in AllowedBy(sFilter)
              /\ DocumentationUrl(sResults[k].url)
        /\ Len(sResults) <= sLimit
        /\ Len(sResults) = IF Cardinality(Passing) < sLimit
                           THEN Cardinality(Passing) ELSE sLimit
        /\ \A k \in 1..Len(sResults) :
              \E i \in Passing :
                 /\ Cardinality({j \in Passing : j < i}) = k - 1
                 /\ sResults[k].url = AbsoluteUrl(sPage[i].href)
                 /\ sResults[k].type = extractResultType(sPage[i])

\* A sample comes first, a documentation result second: under the filter
\* 'documentation' and with limit 1 the second one alone is returned.
C21_Witness ==
    /\ sDone
    /\ sFilter = FilterDocumentation
    /\ sLimit = 1
    /\ Len(sPage) = 2
    /\ extractResultType(sPage[1]) = TypeSampleCodeResult
    /\ Len(sResults) = 1
    /\ sResults[1].url = AbsoluteUrl(sPage[2].href)

-----------------------------------------------------------------------------
(* Properties of the name normaliser *)

UpperLower(a, b) == \E k \in 1..26 : {a, b} \subseteq {Letters[k], Uppers[k]}

\* The same text but for the case of its letters.
SameButCase(s, t) ==
    /\ Len(s) = Len(t)
    /\ \A i \in 1..Len(s) : s[i] = t[i] \/ UpperLower(s[i], t[i])

\* The text between the leading and the trailing spaces of s.
Inner(s) ==
    LET solid == {i \in 1..Len(s) : s[i] # " "}
    IN IF solid = {} THEN <<>>
       ELSE SubSeq(s, CHOOSE i \in solid : \A j \in solid : i <= j,
                      CHOOSE i \in solid : \A j \in solid : i >= j)

KnownSlugs == {StrSwiftui, StrUikit, StrCoreml}

\* C22: a known slug, in any letter case and between any spaces, gives
\* its canonical name (swiftui -> SwiftUI, uikit -> UIKit, coreml ->
\* Core ML); any other name comes back without its surrounding spaces,
\* its first character in upper case and the rest as it was; '' gives '';
\* normalising the name returned returns it again.
C22_NormalizeFrameworkLookupAndFallback ==
    nfDone =>
        /\ SameButCase(Inner(nfInput), StrSwiftui) => nfOutput = StrSwiftUI
        /\ SameButCase(Inner(nfInput), StrUikit) => nfOutput = StrUIKit
        /\ SameButCase(Inner(nfInput), StrCoreml) => nfOutput = StrCoreML
        /\ (\A k \in KnownSlugs : ~SameButCase(Inner(nfInput), k)) =>
              /\ Len(nfOutput) = Len(Inner(nfInput))
              /\ \A i \in 2..Len(nfOutput) : nfOutput[i] = Inner(nfInput)[i]
              /\ nfOutput # <<>> =>
                    /\ nfOutput[1] \notin {Letters[k] : k \in 1..26}
                    /\ \/ nfOutput[1] = Inner(nfInput)[1]
                       \/ UpperLower(nfOutput[1], Inner(nfInput)[1])
        /\ nfInput = <<>> => nfOutput = <<>>
        /\ nfAgain = nfOutput

\* '  UIKIT ' has been normalised to 'UIKit'.
C22_Witness ==
    /\ nfDone
    /\ nfInput = <<" ", " ", "U", "I", "K", "I", "T", " ">>
    /\ nfOutput = StrUIKit
    /\ nfAgain = StrUIKit

-----------------------------------------------------------------------------
(* Properties of the sample filters and of their order *)

\* Title s does not come after title t.
TitleNotAfter(s, t) == LocaleCompare(s, t) <= 0

\* The record passes the three filters of the arguments.
PassesSampleFilters(c) ==
    /\ sampleArgs.framework # <<>> =>
          \/ Includes(ToLowerCase(c.framework), ToLowerCase(sampleArgs.framework))
          \/ Includes(ToLowerCase(c.title), ToLowerCase(sampleArgs.framework))
          \/ Includes(ToLowerCase(c.path), ToLowerCase(sampleArgs.framework))
    /\ sampleArgs.searchQuery # <<>> =>
          \/ Includes(ToLowerCase(c.title), ToLowerCase(sampleArgs.searchQuery))
          \/ Includes(ToLowerCase(c.framework), ToLowerCase(sampleArgs.searchQuery))
          \/ Includes(ToLowerCase(c.path), ToLowerCase(sampleArgs.searchQuery))
    /\ sampleArgs.beta = "exclude" => ~c.beta
    /\ sampleArgs.beta = "only" => c.beta

\* The deduplicated records that pass, in the order of the list.
PassingSamples == SelectSeq(uniqueCodes, PassesSampleFilters)

Arranged == samplePc = "done" /\ sampleOutcome.kind = "ok" /\ sampleCodes = <<>>

\* C24: in the list returned every featured record stands before every
\* record that is not, and within each of the two groups the titles
\* ascend; no featured record that passes the filters is cut by the limit
\* while a record that is not featured is kept.
C24_FeaturedFirstThenByTitle ==
    Arranged =>
        /\ \A i, j \in 1..Len(sampleResults) :
              i < j =>
                 /\ sampleResults[j].featured => sampleResults[i].featured
                 /\ sampleResults[i].featured = sampleResults[j].featured =>
                       TitleNotAfter(sampleResults[i].title, sampleResults[j].title)
        /\ \A k \in 1..Len(PassingSamples) :
              (/\ PassingSamples[k].featured
               /\ \A i \in 1..Len(sampleResults) : sampleResults[i] # PassingSamples[k])
                 => \A i \in 1..Len(sampleResults) : sampleResults[i].featured

\* Of a record b that is not featured and a featured record a listed
\* after it, the limit of 1 keeps the featured one.
C24_Witness ==
    /\ Arranged
    /\ sampleArgs.limit = 1
    /\ Len(PassingSamples) = 2
    /\ ~PassingSamples[1].featured
    /\ PassingSamples[2].featured
    /\ sampleResults = <<PassingSamples[2]>>

-----------------------------------------------------------------------------
(* Properties of the documentation updates *)

\* The nodes of the index, at every depth.
RECURSIVE NodesOf(_)
NodesOf(sections) ==
    IF sections = <<>> THEN {}
    ELSE {Head(sections)}
         \cup (IF Head(sections).children.defined
               THEN NodesOf(Head(sections).children.value) ELSE {})
         \cup NodesOf(Tail(sections))

IndexNodes ==
    IF updatesIndex.interfaceLanguages.defined
       /\ updatesIndex.interfaceLanguages.value.swift.defined
    THEN NodesOf(updatesIndex.interfaceLanguages.value.swift.value)
    ELSE {}

UpdatesParsed == updatePc = "done" /\ updateOutcome.kind = "ok"

\* C29: after parseUpdates an update whose URL path is the path of a node
\* of the index has the beta flag of such a node (false when the node has
\* none) and the technology of that node's path; an update whose path is
\* the path of no node has been given no beta flag and no technology.
C29_IndexEnrichesTheUpdateOfItsPath ==
    UpdatesParsed =>
        \A k \in 1..Len(parsedUpdates) :
            LET u == parsedUpdates[k]
                own == {n \in IndexNodes : u.url = StrAppleOrigin \o n.path}
            IN /\ own # {} =>
                     \E n \in own : /\ u.beta = BetaOrFalse(n.beta)
                                    /\ u.technology = extractTechFromPath(n.path)
               /\ own = {} => u.beta = BetaAbsent /\ u.technology = Absent

-----------------------------------------------------------------------------
(* Properties of the filters and of the truncation *)

\* The update passes every filter of the arguments.
PassesUpdateFilters(u) ==
    /\ updateArgs.category # CatAll => u.category = updateArgs.category
    /\ updateArgs.technology # <<>> =>
          \/ u.technology.defined
                /\ Includes(ToLowerCase(u.technology.value), ToLowerCase(updateArgs.technology))
          \/ Includes(ToLowerCase(u.title), ToLowerCase(updateArgs.technology))
          \/ Includes(ToLowerCase(u.description), ToLowerCase(updateArgs.technology))
    /\ updateArgs.year # <<>> => u.year = Some(updateArgs.year)
    /\ updateArgs.searchQuery # <<>> =>
          \/ Includes(ToLowerCase(u.title), ToLowerCase(updateArgs.searchQuery))
          \/ Includes(ToLowerCase(u.description), ToLowerCase(updateArgs.searchQuery))
    /\ ~updateArgs.includeBeta => u.beta # BetaTrue

\* The samples filtered in the documented order: framework, free text,
\* beta state.
DocumentedOrder ==
    FilterBeta(FilterSearch(FilterFramework(uniqueCodes, sampleArgs.framework),
                            sampleArgs.searchQuery),
               sampleArgs.beta)

\* C23: in samples and in updates the limit cuts the list only after
\* every filter: the samples returned are the first `limit` of the
\* filtered list once sorted, the filtered list is what the filters give
\* in the documented order, totalFound is its length; the updates returned
\* are the first `limit` of the updates that pass every filter, in the
\* order of the parse.
C23_TruncationAfterAllFilters ==
    /\ Arranged =>
          /\ DocumentedOrder = PassingSamples
          /\ totalFound = Len(PassingSamples)
          /\ sampleResults = Take(SortSamples(PassingSamples), sampleArgs.limit)
    /\ UpdatesParsed =>
          updateResults = Take(SelectSeq(parsedUpdates, PassesUpdateFilters), updateArgs.limit)

\* Of two updates the first is filtered out and the second passes: with
\* limit 1 the second is returned.
C23_Witness ==
    /\ UpdatesParsed
    /\ updateArgs.limit = 1
    /\ Len(parsedUpdates) = 2
    /\ ~PassesUpdateFilters(parsedUpdates[1])
    /\ updateResults = <<parsedUpdates[2]>>

-----------------------------------------------------------------------------
(* Properties of the technologies filter *)

\* The technology passes the language and beta filters.
PassesTechFilters(tech) ==
    /\ techFilters.includeBeta \/ \A i \in 1..Len(tech.tags) : tech.tags[i] # TagBeta
    /\ techFilters.language # "" =>
          \E i \in 1..Len(tech.languages) : tech.languages[i] = techFilters.language

\* The group passes the category filter.
PassesCategory(group) ==
    techFilters.category # <<>> =>
        Includes(ToLowerCase(group.name), ToLowerCase(techFilters.category))

\* The technologies of a list of groups, in document order.
RECURSIVE Flat(_)
Flat(groups) ==
    IF groups = <<>> THEN <<>> ELSE Head(groups).technologies \o Flat(Tail(groups))

\* The technologies that pass every filter, in document order.
PassingTechs ==
    Flat([g \in 1..Len(techGroups) |->
             [name |-> techGroups[g].name,
              technologies |->
                  IF PassesCategory(techGroups[g])
                  THEN SelectSeq(techGroups[g].technologies, PassesTechFilters)
                  ELSE <<>>]])

\* C30: applyFilters returns the groups in their original order, each
\* with technologies of its own that pass every filter, none of them
\* empty; together they hold the first `limit` passing technologies in
\* document order, min(limit, number passing) of them; with limit 0 no
\* group is returned.
C30_FirstLimitPassingTechnologies ==
    techDone =>
        /\ Flat(techResult) = Take(PassingTechs, techFilters.limit)
        /\ \A k \in 1..Len(techResult) :
              /\ techResult[k].technologies # <<>>
              /\ \A i \in 1..Len(techResult[k].technologies) :
                    LET g == techResult[k].technologies[i].identifier[1]
                    IN /\ techResult[k].name = techGroups[g].name
                       /\ g = techResult[k].technologies[1].identifier[1]
        /\ \A k, l \in 1..Len(techResult) :
              k < l => techResult[k].technologies[1].identifier[1]
                          < techResult[l].technologies[1].identifier[1]
        /\ techFilters.limit = 0 => techResult = <<>>

\* Two technologies pass in each of the two groups and the limit is 3:
\* the second group comes back with its first technology only.
C30_Witness ==
    /\ techDone
    /\ techFilters.limit = 3
    /\ Len(PassingTechs) = 4
    /\ Len(techResult) = 2
    /\ Len(techResult[1].technologies) = 2
    /\ Len(techResult[2].technologies) = 1

-----------------------------------------------------------------------------
(* Properties of the failures and the cache *)

\* The key under which the invocation in progress would store its result;
\* search has none.
InvocationKey ==
    IF fModule = ModDoc THEN DocKey(fJson, fArgs)
    ELSE MakeCacheKey(KeyPrefix(fModule), fArgs)

\* The invocation has ended with the string of a catch.
Failed == fPc = "done" /\ fFailure.failed

\* A step that ends an invocation in a catch writes nothing, and the
\* store changes at the successful end of an invocation only.
C26_FailureStep ==
    /\ (fPc = "awaitFetch" /\ fPc' = "done" /\ fFailure'.failed) => store' = store
    /\ store' # store => (fPc' = "done" /\ ~fFailure'.failed)

\* An invocation that follows a failed one fetches again.
C26_NextInvocationStep ==
    (Failed /\ fInvocation' = fInvocation + 1) =>
        (fPc' = "awaitFetch" /\ fRequests' # <<>>)

\* C26: when the producer given to cacheGetOrSet fails, or a doc fetch
\* fails, the step leaves the store as it was; after the failure the key
\* of the invocation has no entry, the error string returned is the value
\* of no entry, and the next invocation with the same arguments fetches
\* again.
C26_FailuresAreNeverCached ==
    /\ [][C26_FailureStep /\ C26_NextInvocationStep]_vars
    /\ [](Failed =>
            /\ \A k \in DOMAIN store : store[k].value # fResult.value
            /\ fModule # ModSearch => InvocationKey \notin DOMAIN store)

\* A second invocation of a producer module is waiting for its fetches
\* after the first one failed; or a doc invocation failed on the page it
\* was redirected to.
C26_Witness ==
    \/ /\ fModule \in ProducerModules
       /\ fInvocation = 2
       /\ fPc = "awaitFetch"
       /\ fRequests # <<>>
       /\ store = <<>>
    \/ /\ fModule = ModDoc
       /\ Failed
       /\ Len(fRequests) = 2
       /\ store = <<>>

-----------------------------------------------------------------------------
(* Properties of the joint await of samples and updates *)

\* The modules whose producer awaits a Promise.all of two fetches.
JointModules == {ModUpdates, ModSamples}

\* Both fetches have resolved, in either order.
BothResolved ==
    /\ Len(fSettled) = 2
    /\ {fSettled[1].fetch, fSettled[2].fetch} = {1, 2}
    /\ fSettled[1].ok /\ fSettled[2].ok

SomeRejected == \E n \in 1..Len(fSettled) : ~fSettled[n].ok

\* The parser has run: its string was returned or its exception caught.
Parsed ==
    /\ fPc = "done"
    /\ fRequests # <<>>
    /\ \/ ~fFailure.failed
       \/ fFailure.message = ShapeError

\* A miss issues both requests in the step of the call, before either
\* settles.
C27_CallStep ==
    (fModule \in JointModules /\ fInvocation' = fInvocation + 1 /\ fPc' = "awaitFetch") =>
        /\ fRequests' = Endpoints(fModule)
        /\ Len(fRequests') = 2
        /\ fPending' = {1, 2}
        /\ fSettled' = <<>>

\* A fetch that settles while the other is awaited ends the invocation
\* only by failing, and then nothing is written; nothing is written once
\* the invocation is over.
C27_SettleStep ==
    (fModule \in JointModules /\ Len(fSettled') = Len(fSettled) + 1) =>
        LET last == fSettled'[Len(fSettled')]
        IN /\ (fPc = "awaitFetch" /\ ~last.ok) =>
                 /\ fPc' = "done"
                 /\ fResult' = Resolved(ErrorPrefix(fModule) \o fFailure'.message)
                 /\ store' = store
           /\ (fPc = "awaitFetch" /\ last.ok /\ Len(fSettled') = 1) =>
                 /\ fPc' = "awaitFetch"
                 /\ store' = store
           /\ fPc = "done" => (store' = store /\ fResult' = fResult)

\* C27: samples and updates request their two resources together; the
\* parser runs only after both fetches have resolved; when either fetch
\* rejects, whichever settles first, the invocation ends with the error
\* string and the store holds no entry for it.
C27_JointAwaitOfTwoFetches ==
    /\ [][C27_CallStep /\ C27_SettleStep]_vars
    /\ [](fModule \in JointModules =>
            /\ Parsed => BothResolved
            /\ fPc = "awaitFetch" => fPending # {}
            /\ SomeRejected =>
                  /\ Failed
                  /\ fResult.state = "resolved"
                  /\ Includes(fResult.value, ErrorPrefix(fModule))
                  /\ store = <<>>)

\* The second request resolved first and the first one then rejected.
C27_Witness ==
    /\ fModule = ModUpdates
    /\ fSettled = <<[fetch |-> 2, ok |-> TRUE], [fetch |-> 1, ok |-> FALSE]>>
    /\ Failed
    /\ store = <<>>

-----------------------------------------------------------------------------
(* Properties of the keys of different queries *)

\* C28: under one prefix, two objects whose defined parameters differ in
\* a name or in a value never give the same key, whatever the values hold.
C28_KeyIsInjectiveOnDefinedParameters ==
    (keyOut[1] # None /\ keyOut[2] # None /\ Effective(params[1]) # Effective(params[2]))
        => keyOut[1] # keyOut[2]

====
